---- MODULE Spec2Model ----
(***************************************************************************)
(* go-tx-map: the sharded transaction-hash map.                            *)
(*                                                                         *)
(* NativeMapUint64 is one synchronized table (a Go map plus a length       *)
(* counter); NativeSplitMap owns nrOfBuckets + 1 of them and routes every   *)
(* keyed operation with Bytes2Uint16Buckets.  The operations are modelled  *)
(* as whole calls made one after another.                                  *)
(***************************************************************************)
EXTENDS Integers, Sequences, FiniteSets, TLC

(* ------------------------------ bounds --------------------------------- *)

\* number of distinct hashes offered to the operations
NumHashes == 2
\* longest batch handed to PutMulti / PutMultiBucket
MaxBatch == 2
\* largest number of stored entries explored
MaxLen == 2
\* largest bucket override handed to NewNativeSplitMap
NrBuckets == 2

(* ------------------------------ data ----------------------------------- *)

\* a chainhash.Hash, given by its three leading bytes (the rest are zero)
HashOf(i) == <<(i \div 2) % 2, i % 2, i \div 4>>

Hashes == {HashOf(i) : i \in 0 .. (NumHashes - 1)}

\* the uint64 values offered: two of them, enough to tell an overwrite from
\* a kept value (no operation inspects the value it stores)
Values == {1, 2}

RECURSIVE SeqsUpTo(_, _)
SeqsUpTo(S, n) ==
    IF n = 0 THEN {<<>>}
    ELSE LET shorter == SeqsUpTo(S, n - 1)
         IN shorter \cup {Append(q, x) : q \in {r \in shorter : Len(r) = n - 1}, x \in S}

Batches == SeqsUpTo(Hashes, MaxBatch)

NoHash == <<>>
NoBucket == -1

(* ------------------------------ errors --------------------------------- *)

\* An error is its chain of wrapping frames, outermost first; nil is the
\* empty chain and a sentinel is a chain of one frame.
Nil == <<>>

Sentinel(name) == <<[format |-> name, bucket |-> NoBucket, max |-> NoBucket, hash |-> NoHash]>>

ErrHashAlreadyExists == Sentinel("hash already exists")
ErrHashDoesNotExist == Sentinel("hash does not exist")
ErrBucketDoesNotExist == Sentinel("bucket does not exist")

errWrapFormat == "%w: %s"

\* fmt.Errorf with one %w verb: a new frame in front of the wrapped chain
Errorf(format, inner, bucket, max, hash) ==
    <<[format |-> format, bucket |-> bucket, max |-> max, hash |-> hash]>> \o inner

\* errors.Is: the target is the error itself or something it wraps
ErrorsIs(err, target) ==
    /\ target # Nil
    /\ \E i \in 1 .. Len(err) : SubSeq(err, i, Len(err)) = target

(* ------------------------------ routing -------------------------------- *)

\* the routing function as it would be reading the two bytes low byte first
Bytes2Uint16Buckets_LittleEndian(b, mod) == (((b[2] * 256) + b[1]) % 65536) % mod

\* big-endian uint16 of the two leading bytes, reduced modulo mod
Bytes2Uint16Buckets(b, mod) == (((b[1] * 256) + b[2]) % 65536) % mod

(* ------------------------------ NativeMap ------------------------------ *)

\* A NativeMap: the Go map m, a set of hashes, and the counter length.
\* Every method takes the lock for its whole body, so a method is one step;
\* Put, PutMulti and Delete always return nil.
NewNativeMap == [m |-> {}, length |-> 0]

NativeMap_Exists(s, hash) == hash \in s.m

NativeMap_Get(s, hash) == <<0, hash \in s.m>>

NativeMap_Put(s, hash) == [m |-> s.m \cup {hash}, length |-> s.length + 1]

RECURSIVE NativeMapPutMultiFrom(_, _, _)
NativeMapPutMultiFrom(s, hashes, i) ==
    IF i > Len(hashes) THEN s
    ELSE NativeMapPutMultiFrom([m |-> s.m \cup {hashes[i]}, length |-> s.length + 1], hashes, i + 1)

NativeMap_PutMulti(s, hashes) == NativeMapPutMultiFrom(s, hashes, 1)

NativeMap_Delete(s, hash) == [m |-> s.m \ {hash}, length |-> s.length - 1]

NativeMap_Length(s) == s.length

(* --------------------------- NativeMapUint64 --------------------------- *)

\* A NativeMapUint64: the Go map m and the counter length.  Every method
\* takes the table's lock for its whole body, so a method is one step.
NewNativeMapUint64 == [m |-> [h \in {} |-> 0], length |-> 0]

\* the result of a method: the table afterwards and what the call returned
MapResult(s, ok, err) == [s |-> s, ok |-> ok, err |-> err]

NativeMapUint64_Exists(s, hash) == hash \in DOMAIN s.m

NativeMapUint64_Get(s, hash) ==
    IF hash \notin DOMAIN s.m THEN <<0, FALSE>> ELSE <<s.m[hash], TRUE>>

\* Put as it would be with the existence check dropped: a duplicate overwrites
NativeMapUint64_Put_Overwrite(s, hash, n) ==
    IF hash \in DOMAIN s.m
    THEN MapResult([s EXCEPT !.m[hash] = n], FALSE, Nil)
    ELSE MapResult([m |-> (hash :> n) @@ s.m, length |-> s.length + 1], FALSE, Nil)

\* Put as it would be with length++ placed before the existence check
NativeMapUint64_Put_CountFirst(s, hash, n) ==
    IF hash \in DOMAIN s.m
    THEN MapResult([s EXCEPT !.length = s.length + 1], FALSE,
             Errorf(errWrapFormat, ErrHashAlreadyExists, NoBucket, NoBucket, hash))
    ELSE MapResult([m |-> (hash :> n) @@ s.m, length |-> s.length + 1], FALSE, Nil)

NativeMapUint64_Put(s, hash, n) ==
    IF hash \in DOMAIN s.m
    THEN MapResult(s, FALSE, Errorf(errWrapFormat, ErrHashAlreadyExists, NoBucket, NoBucket, hash))
    ELSE MapResult([m |-> (hash :> n) @@ s.m, length |-> s.length + 1], FALSE, Nil)

RECURSIVE PutMultiFrom(_, _, _, _)
PutMultiFrom(s, hashes, i, n) ==
    IF i > Len(hashes) THEN MapResult(s, FALSE, Nil)
    ELSE IF hashes[i] \in DOMAIN s.m
         THEN MapResult(s, FALSE, Errorf(errWrapFormat, ErrHashAlreadyExists, NoBucket, NoBucket, hashes[i]))
         ELSE PutMultiFrom([m |-> (hashes[i] :> n) @@ s.m, length |-> s.length + 1], hashes, i + 1, n)

\* PutMulti as it would be if it validated the whole batch before inserting
NativeMapUint64_PutMulti_AllOrNothing(s, hashes, n) ==
    LET r == PutMultiFrom(s, hashes, 1, n)
    IN IF r.err # Nil THEN MapResult(s, FALSE, r.err) ELSE r

NativeMapUint64_PutMulti(s, hashes, n) == PutMultiFrom(s, hashes, 1, n)

\* Set as it would be if it stored an absent key instead of refusing it
NativeMapUint64_Set_Upsert(s, hash, value) ==
    IF hash \notin DOMAIN s.m
    THEN MapResult([m |-> (hash :> value) @@ s.m, length |-> s.length + 1], FALSE, Nil)
    ELSE MapResult([s EXCEPT !.m[hash] = value], FALSE, Nil)

NativeMapUint64_Set(s, hash, value) ==
    IF hash \notin DOMAIN s.m
    THEN MapResult(s, FALSE, Errorf(errWrapFormat, ErrHashDoesNotExist, NoBucket, NoBucket, hash))
    ELSE MapResult([s EXCEPT !.m[hash] = value], FALSE, Nil)

\* SetIfExists as it would be if it reported an absent key as an error
NativeMapUint64_SetIfExists_Error(s, hash, value) ==
    IF hash \notin DOMAIN s.m
    THEN MapResult(s, FALSE, Errorf(errWrapFormat, ErrHashDoesNotExist, NoBucket, NoBucket, hash))
    ELSE MapResult([s EXCEPT !.m[hash] = value], TRUE, Nil)

NativeMapUint64_SetIfExists(s, hash, value) ==
    IF hash \notin DOMAIN s.m
    THEN MapResult(s, FALSE, Nil)
    ELSE MapResult([s EXCEPT !.m[hash] = value], TRUE, Nil)

\* SetIfNotExists as it would be without length++
NativeMapUint64_SetIfNotExists_NoCount(s, hash, value) ==
    IF hash \in DOMAIN s.m
    THEN MapResult(s, FALSE, Nil)
    ELSE MapResult([m |-> (hash :> value) @@ s.m, length |-> s.length], TRUE, Nil)

NativeMapUint64_SetIfNotExists(s, hash, value) ==
    IF hash \in DOMAIN s.m
    THEN MapResult(s, FALSE, Nil)
    ELSE MapResult([m |-> (hash :> value) @@ s.m, length |-> s.length + 1], TRUE, Nil)

NativeMapUint64_Length(s) == s.length

\* every order in which the elements of S can be listed
RECURSIVE Orderings(_)
Orderings(S) ==
    IF S = {} THEN {<<>>}
    ELSE UNION {{<<x>> \o q : q \in Orderings(S \ {x})} : x \in S}

\* Keys ranges over the Go map, whose iteration order is unspecified: the
\* set of slices the call may return
NativeMapUint64_Keys(s) == Orderings(DOMAIN s.m)

\* A visitor f is given by stopOn, the hashes on which it returns true.  The
\* calls Iter makes on a key order: up to and including the first key the
\* visitor returns true on.
Visited(keys, stopOn) ==
    LET stops == {j \in 1 .. Len(keys) : keys[j] \in stopOn}
    IN IF stops = {} THEN keys
       ELSE SubSeq(keys, 1, CHOOSE j \in stops : \A i \in stops : j <= i)

\* Iter ranges over the Go map in an unspecified order: the set of call
\* sequences f may see, each call a hash and its value
NativeMapUint64_Iter(s, stopOn) ==
    {[j \in 1 .. Len(Visited(keys, stopOn)) |->
          [hash |-> keys[j], value |-> s.m[keys[j]]]] : keys \in Orderings(DOMAIN s.m)}

\* NativeMap.Keys: make([]chainhash.Hash, 0, s.length) panics on a negative
\* length, and then no slice is returned
NativeMap_Keys(s) == IF s.length < 0 THEN {} ELSE Orderings(s.m)

\* Delete as it would be without length--
NativeMapUint64_Delete_NoCount(s, hash) ==
    IF hash \notin DOMAIN s.m
    THEN MapResult(s, FALSE, Errorf("%w: %s", ErrHashDoesNotExist, NoBucket, NoBucket, hash))
    ELSE MapResult([m |-> [k \in (DOMAIN s.m) \ {hash} |-> s.m[k]], length |-> s.length], FALSE, Nil)

NativeMapUint64_Delete(s, hash) ==
    IF hash \notin DOMAIN s.m
    THEN MapResult(s, FALSE, Errorf("%w: %s", ErrHashDoesNotExist, NoBucket, NoBucket, hash))
    ELSE MapResult([m |-> [k \in (DOMAIN s.m) \ {hash} |-> s.m[k]], length |-> s.length - 1], FALSE, Nil)

(* ---------------------------- NativeSplitMap --------------------------- *)

\* A NativeSplitMap: the shard table m (bucket index -> NativeMapUint64)
\* and nrOfBuckets.  buckets is the variadic override, a sequence; length
\* only sizes the shards' first allocation, which no method can observe.
NewNativeSplitMap(length, buckets) ==
    LET useBuckets == IF Len(buckets) > 0 THEN buckets[1] ELSE 1024
    IN [m |-> [i \in 0 .. useBuckets |-> NewNativeMapUint64], nrOfBuckets |-> useBuckets]

\* the result of a method: the split map afterwards and what the call
\* returned.  A method other than Delete reads its shard slot unchecked, so
\* it is only applied where that slot holds a table.
SplitResult(g, ok, err) == [g |-> g, ok |-> ok, err |-> err]

\* the shard's method result carried back into the split map
InShard(g, idx, r) == SplitResult([g EXCEPT !.m[idx] = r.s], r.ok, r.err)

\* Buckets as it would be if it counted the shard tables
NativeSplitMap_Buckets_CountShards(g) == Cardinality(DOMAIN g.m)

NativeSplitMap_Buckets(g) == g.nrOfBuckets

NativeSplitMap_Exists(g, hash) ==
    NativeMapUint64_Exists(g.m[Bytes2Uint16Buckets(hash, g.nrOfBuckets)], hash)

NativeSplitMap_Get(g, hash) ==
    NativeMapUint64_Get(g.m[Bytes2Uint16Buckets(hash, g.nrOfBuckets)], hash)

NativeSplitMap_Put(g, hash, n) ==
    LET idx == Bytes2Uint16Buckets(hash, g.nrOfBuckets)
    IN InShard(g, idx, NativeMapUint64_Put(g.m[idx], hash, n))

RECURSIVE SplitPutMultiFrom(_, _, _, _)
SplitPutMultiFrom(g, hashes, i, n) ==
    IF i > Len(hashes) THEN SplitResult(g, FALSE, Nil)
    ELSE LET idx == Bytes2Uint16Buckets(hashes[i], g.nrOfBuckets)
             r == NativeMapUint64_Put(g.m[idx], hashes[i], n)
         IN IF r.err # Nil
            THEN SplitResult(g, FALSE,
                     Errorf("failed to put multi in bucket %d: %w", r.err, idx, NoBucket, NoHash))
            ELSE SplitPutMultiFrom([g EXCEPT !.m[idx] = r.s], hashes, i + 1, n)

\* PutMulti as it would be if a failure undid the insertions before it
NativeSplitMap_PutMulti_Rollback(g, hashes, n) ==
    LET r == SplitPutMultiFrom(g, hashes, 1, n)
    IN IF r.err # Nil THEN SplitResult(g, FALSE, r.err) ELSE r

NativeSplitMap_PutMulti(g, hashes, n) == SplitPutMultiFrom(g, hashes, 1, n)

\* PutMultiBucket as it would be with the range check written bucket >= nrOfBuckets
NativeSplitMap_PutMultiBucket_Strict(g, bucket, hashes, n) ==
    IF bucket >= g.nrOfBuckets
    THEN SplitResult(g, FALSE,
             Errorf("%w: %d, max bucket is %d", ErrBucketDoesNotExist, bucket, g.nrOfBuckets, NoHash))
    ELSE InShard(g, bucket, NativeMapUint64_PutMulti(g.m[bucket], hashes, n))

NativeSplitMap_PutMultiBucket(g, bucket, hashes, n) ==
    IF bucket > g.nrOfBuckets
    THEN SplitResult(g, FALSE,
             Errorf("%w: %d, max bucket is %d", ErrBucketDoesNotExist, bucket, g.nrOfBuckets, NoHash))
    ELSE InShard(g, bucket, NativeMapUint64_PutMulti(g.m[bucket], hashes, n))

NativeSplitMap_Set(g, hash, value) ==
    LET idx == Bytes2Uint16Buckets(hash, g.nrOfBuckets)
    IN InShard(g, idx, NativeMapUint64_Set(g.m[idx], hash, value))

NativeSplitMap_SetIfExists(g, hash, value) ==
    LET idx == Bytes2Uint16Buckets(hash, g.nrOfBuckets)
    IN InShard(g, idx, NativeMapUint64_SetIfExists(g.m[idx], hash, value))

NativeSplitMap_SetIfNotExists(g, hash, value) ==
    LET idx == Bytes2Uint16Buckets(hash, g.nrOfBuckets)
    IN InShard(g, idx, NativeMapUint64_SetIfNotExists(g.m[idx], hash, value))

RECURSIVE SplitLengthFrom(_, _)
SplitLengthFrom(g, i) ==
    IF i > g.nrOfBuckets THEN 0
    ELSE NativeMapUint64_Length(g.m[i]) + SplitLengthFrom(g, i + 1)

NativeSplitMap_Length(g) == SplitLengthFrom(g, 0)

\* the slices Keys may return: the shards' slices appended in index order
RECURSIVE SplitKeysFrom(_, _)
SplitKeysFrom(g, i) ==
    IF i > g.nrOfBuckets THEN {<<>>}
    ELSE {ks \o rest : ks \in NativeMapUint64_Keys(g.m[i]), rest \in SplitKeysFrom(g, i + 1)}

NativeSplitMap_Keys(g) == SplitKeysFrom(g, 0)

\* the calls of one shard's Iter, each marked with the shard's index
InBucket(i, calls) ==
    [j \in 1 .. Len(calls) |-> [bucket |-> i, hash |-> calls[j].hash, value |-> calls[j].value]]

\* Iter as it would be if a visitor's true ended the whole iteration
RECURSIVE SplitIterFrom_StopAll(_, _, _)
SplitIterFrom_StopAll(g, i, stopOn) ==
    IF i > g.nrOfBuckets THEN {<<>>}
    ELSE UNION {IF Len(calls) > 0 /\ calls[Len(calls)].hash \in stopOn
                THEN {InBucket(i, calls)}
                ELSE {InBucket(i, calls) \o rest : rest \in SplitIterFrom_StopAll(g, i + 1, stopOn)}
                    : calls \in NativeMapUint64_Iter(g.m[i], stopOn)}

\* the shards' Iter calls one after the other, in index order
RECURSIVE SplitIterFrom(_, _, _)
SplitIterFrom(g, i, stopOn) ==
    IF i > g.nrOfBuckets THEN {<<>>}
    ELSE {InBucket(i, calls) \o rest :
              calls \in NativeMapUint64_Iter(g.m[i], stopOn), rest \in SplitIterFrom(g, i + 1, stopOn)}

NativeSplitMap_Iter(g, stopOn) == SplitIterFrom(g, 0, stopOn)

\* Map's inner loop on one shard: m.Put(key, val) for each of the shard's
\* keys, the error of a key that m already holds dropped
RECURSIVE PutAllFrom(_, _, _)
PutAllFrom(m, shard, keys) ==
    IF keys = {} THEN m
    ELSE LET key == CHOOSE k \in keys : TRUE
         IN PutAllFrom(NativeMapUint64_Put(m, key, NativeMapUint64_Get(shard, key)[1]).s,
                       shard, keys \ {key})

RECURSIVE SplitMapFrom(_, _, _)
SplitMapFrom(g, i, m) ==
    IF i > g.nrOfBuckets THEN m
    ELSE SplitMapFrom(g, i + 1, PutAllFrom(m, g.m[i], DOMAIN g.m[i].m))

\* A container handed out by Map: its table s, and live, which tells
\* whether the container is the map's own storage (writes show on both
\* sides) or storage of its own.
\* Map as it would be if it handed out a view of the shards
NativeSplitMap_Map_Live(g) ==
    [taken |-> TRUE, live |-> TRUE, s |-> SplitMapFrom(g, 0, NewNativeMapUint64)]

\* Map builds a new NativeMapUint64 and fills it from the shards
NativeSplitMap_Map(g) ==
    [taken |-> TRUE, live |-> FALSE, s |-> SplitMapFrom(g, 0, NewNativeMapUint64)]

\* Delete as it would be if a missing shard were treated as an empty one
NativeSplitMap_Delete_KeyFirst(g, hash) ==
    LET bucket == Bytes2Uint16Buckets(hash, g.nrOfBuckets)
    IN IF bucket \notin DOMAIN g.m \/ ~NativeMapUint64_Exists(g.m[bucket], hash)
       THEN SplitResult(g, FALSE,
                Errorf("%w in bucket %d: %s", ErrHashDoesNotExist, bucket, NoBucket, hash))
       ELSE InShard(g, bucket, NativeMapUint64_Delete(g.m[bucket], hash))

NativeSplitMap_Delete(g, hash) ==
    LET bucket == Bytes2Uint16Buckets(hash, g.nrOfBuckets)
    IN IF bucket \notin DOMAIN g.m
       THEN SplitResult(g, FALSE, Errorf("%w: %d", ErrBucketDoesNotExist, bucket, NoBucket, NoHash))
       ELSE IF ~NativeMapUint64_Exists(g.m[bucket], hash)
            THEN SplitResult(g, FALSE,
                     Errorf("%w in bucket %d: %s", ErrHashDoesNotExist, bucket, NoBucket, hash))
            ELSE InShard(g, bucket, NativeMapUint64_Delete(g.m[bucket], hash))

(* --------------------- NativeLockFreeMapUint64 ------------------------- *)
(* A table with uint64 keys: the Go map m and the atomic.Uint32 counter     *)
(* length.  No method takes a lock.                                         *)

\* the uint64 keys offered to the lock-free maps
NumericKeys == 0 .. (NumHashes + 1)

NewNativeLockFreeMapUint64 == [m |-> <<>>, length |-> 0]

NativeLockFreeMapUint64_Exists(t, hash) == hash \in DOMAIN t.m

\* atomic.Uint32.Add: the counter moves from the value it holds at that
\* instant.  seen is the value the caller loaded earlier, which a load
\* followed by a store would build on.  The counter wraps at 2^32, far
\* beyond the number of entries explored.
AtomicAdd_LoadThenStore(counter, seen, delta) == seen + delta

AtomicAdd(counter, seen, delta) == counter + delta

\* Put as it would be if it replaced the value of a stored key
NativeLockFreeMapUint64_Put_Overwrite(t, hash, n) ==
    IF NativeLockFreeMapUint64_Exists(t, hash)
    THEN MapResult([t EXCEPT !.m[hash] = n], FALSE, ErrHashAlreadyExists)
    ELSE MapResult([m |-> (hash :> n) @@ t.m, length |-> AtomicAdd(t.length, t.length, 1)], FALSE, Nil)

\* insert-only: a stored key gives the bare sentinel ErrHashAlreadyExists
NativeLockFreeMapUint64_Put(t, hash, n) ==
    IF NativeLockFreeMapUint64_Exists(t, hash)
    THEN MapResult(t, FALSE, ErrHashAlreadyExists)
    ELSE MapResult([m |-> (hash :> n) @@ t.m, length |-> AtomicAdd(t.length, t.length, 1)], FALSE, Nil)

\* Get as it would be if it reported every key as found
NativeLockFreeMapUint64_Get_Found(t, hash) ==
    <<IF hash \in DOMAIN t.m THEN t.m[hash] ELSE 0, TRUE>>

NativeLockFreeMapUint64_Get(t, hash) ==
    IF hash \in DOMAIN t.m THEN <<t.m[hash], TRUE>> ELSE <<0, FALSE>>

NativeLockFreeMapUint64_Length(t) == t.length

(* ------------------- NativeSplitLockFreeMapUint64 ---------------------- *)
(* The shard tables m, one for every index 0 .. nrOfBuckets, and            *)
(* nrOfBuckets; a key is routed to the shard hash % nrOfBuckets.            *)

NewNativeSplitLockFreeMapUint64(length, buckets) ==
    LET useBuckets == IF Len(buckets) > 0 THEN buckets[1] ELSE 1024
    IN [m |-> [i \in 0 .. useBuckets |-> NewNativeLockFreeMapUint64], nrOfBuckets |-> useBuckets]

\* the shard as it would be if every key went to the first table
LockFreeShard_First(f, hash) == 0

\* the shard a key is routed to
LockFreeShard(f, hash) == hash % f.nrOfBuckets

NativeSplitLockFreeMapUint64_Exists(f, hash) ==
    NativeLockFreeMapUint64_Exists(f.m[LockFreeShard(f, hash)], hash)

NativeSplitLockFreeMapUint64_Put(f, hash, n) ==
    LET idx == LockFreeShard(f, hash)
        r == NativeLockFreeMapUint64_Put(f.m[idx], hash, n)
    IN [f |-> [f EXCEPT !.m[idx] = r.s], err |-> r.err]

NativeSplitLockFreeMapUint64_Get(f, hash) ==
    NativeLockFreeMapUint64_Get(f.m[LockFreeShard(f, hash)], hash)

RECURSIVE LockFreeLengthFrom(_, _)
LockFreeLengthFrom(f, i) ==
    IF i > f.nrOfBuckets THEN 0
    ELSE f.m[i].length + LockFreeLengthFrom(f, i + 1)

NativeSplitLockFreeMapUint64_Length(f) == LockFreeLengthFrom(f, 0)

(* ------------------------------ SyncedMap ------------------------------ *)
(* A generic map behind one reader/writer lock with an optional limit on    *)
(* the number of entries; limit 0 means no limit.  Every method holds the   *)
(* lock for its whole body, so a method is one step.                        *)

\* the keys offered to the SyncedMap: one more than the largest limit
SyncedKeys == 1 .. (MaxLen + 1)

SyncedBatches == SeqsUpTo(SyncedKeys, MaxBatch + 1)

NewSyncedMap(limit) == [m |-> <<>>, limit |-> IF Len(limit) > 0 THEN limit[1] ELSE 0]

\* admission as it would be if the limit were not looked at
SyncedMap_Admits_Always(c, key) == TRUE

\* a new key is admitted while the map holds fewer entries than its limit;
\* a stored key can always be written again
SyncedMap_Admits(c, key) ==
    \/ c.limit = 0
    \/ key \in DOMAIN c.m
    \/ Cardinality(DOMAIN c.m) < c.limit

\* Set returns nothing: a key that is not admitted is dropped silently
SyncedMap_Set(c, key, value) ==
    IF SyncedMap_Admits(c, key) THEN [c EXCEPT !.m = (key :> value) @@ c.m] ELSE c

RECURSIVE SyncedMapSetMultiFrom(_, _, _, _)
SyncedMapSetMultiFrom(c, keys, i, value) ==
    IF i > Len(keys) THEN c
    ELSE SyncedMapSetMultiFrom(SyncedMap_Set(c, keys[i], value), keys, i + 1, value)

SyncedMap_SetMulti(c, keys, value) == SyncedMapSetMultiFrom(c, keys, 1, value)

SyncedMap_Get(c, key) == IF key \in DOMAIN c.m THEN <<c.m[key], TRUE>> ELSE <<0, FALSE>>

SyncedMap_Exists(c, key) == key \in DOMAIN c.m

SyncedMap_Length(c) == Cardinality(DOMAIN c.m)

SyncedMap_Delete(c, key) == [c EXCEPT !.m = [k \in (DOMAIN c.m) \ {key} |-> c.m[k]]]

(* ----------------------------- SyncedSlice ----------------------------- *)
(* A slice of items behind one reader/writer lock.                          *)

NewSyncedSlice == [items |-> <<>>]

SyncedSlice_Length(c) == Len(c.items)

SyncedSlice_Get(c, i) ==
    IF i >= 0 /\ i < Len(c.items) THEN <<c.items[i + 1], TRUE>> ELSE <<Nil, FALSE>>

SyncedSlice_Append(c, item) == [c EXCEPT !.items = Append(c.items, item)]

\* the result of Pop or Shift: the slice afterwards, the item and ok
SliceResult(c, item, ok) == [c |-> c, item |-> item, ok |-> ok]

\* Pop as it would be if it took the first item
SyncedSlice_Pop_First(c) ==
    IF Len(c.items) = 0 THEN SliceResult(c, Nil, FALSE)
    ELSE SliceResult([c EXCEPT !.items = Tail(c.items)], Head(c.items), TRUE)

\* Pop takes the last item
SyncedSlice_Pop(c) ==
    IF Len(c.items) = 0 THEN SliceResult(c, Nil, FALSE)
    ELSE SliceResult([c EXCEPT !.items = SubSeq(c.items, 1, Len(c.items) - 1)],
                     c.items[Len(c.items)], TRUE)

\* Shift takes the first item
SyncedSlice_Shift(c) ==
    IF Len(c.items) = 0 THEN SliceResult(c, Nil, FALSE)
    ELSE SliceResult([c EXCEPT !.items = Tail(c.items)], Head(c.items), TRUE)

(* ------------------------------ state ---------------------------------- *)

VARIABLES
    target,     \* which container the program built: "NativeMap", "NativeMapUint64" or "NativeSplitMap"
    s,          \* the NativeMapUint64 under test
    g,          \* the NativeSplitMap under test
    nm,         \* the NativeMap under test
    rin,        \* the hash and modulus handed to Bytes2Uint16Buckets
    rout,       \* what Bytes2Uint16Buckets returned for rin, NoBucket before the call
    snap,       \* the container the last Map() call returned
    mu,         \* the sync.RWMutex of the table s
    th,         \* the goroutines calling the table s: where each is in its call
    s0,         \* the table s as it was when the goroutines were started
    smu,        \* the sync.RWMutex of every shard table of g
    gth,        \* the goroutines calling the split map g: where each is in its call
    lf,         \* the NativeSplitLockFreeMapUint64 under test
    lth,        \* the goroutines calling the lock-free map lf
    syncedMap,  \* the SyncedMap under test
    syncedSlice, \* the SyncedSlice under test
    offered,    \* the keys handed to Set and SetMulti so far
    taken,      \* what the last Pop or Shift returned
    build,      \* the split-map constructor call: its loop index and the shards made so far
    ret,        \* what the last call made on both s and g returned: from s, and from g
    visit       \* the call the visitor of each goroutine's Iter made on the map, and how far it got

routeVars == <<rin, rout>>

lockVars == <<mu, th, s0>>

shardVars == <<smu, gth>>

freeVars == <<lf, lth>>

syncVars == <<syncedMap, syncedSlice, offered, taken>>

vars == <<target, s, g, nm, routeVars, snap, lockVars, shardVars, freeVars, syncVars, build, ret, visit>>

\* the goroutines that call the table at the same time
Threads == {1, 2}

\* no constructor call is followed step by step
NoBuild == build = [pc |-> "idle", nrOfBuckets |-> 0, i |-> 0, shards |-> 0]

\* no call was made on both a table and a split map
NoReturn == ret = [op |-> "", one |-> [ok |-> FALSE, err |-> Nil], split |-> [ok |-> FALSE, err |-> Nil]]

\* Map() has not been called
NoSnapshot == snap = [taken |-> FALSE, live |-> FALSE, s |-> NewNativeMapUint64]

IdleThread == [pc |-> "idle", op |-> "", hash |-> NoHash, hashes |-> <<>>, seen |-> FALSE, ok |-> FALSE]

\* no goroutine was started and the lock is free
NoThreads ==
    /\ mu = [writer |-> FALSE, readers |-> 0]
    /\ th = [t \in Threads |-> IdleThread]
    /\ s0 = NewNativeMapUint64

\* an unlocked sync.RWMutex
FreeLock == [writer |-> FALSE, readers |-> 0]

\* a goroutine that is in no call on the split map
IdleCall ==
    [pc |-> "idle", op |-> "", method |-> "", hash |-> NoHash, hashes |-> <<>>,
     at |-> NoBucket, k |-> 0, acc |-> 0, keys |-> <<>>, out |-> NewNativeMapUint64,
     seen |-> FALSE, ok |-> FALSE, err |-> Nil, held |-> {}, raced |-> FALSE, totals |-> {},
     reads |-> <<>>]

\* the visitor has made no call; stored keeps whether the table held the
\* key when the visitor made its call
NoCall == [on |-> "", shard |-> NoBucket, stored |-> FALSE, call |-> IdleCall]

\* no visitor has made a call on the map
NoVisit == visit = [t \in Threads |-> NoCall]

\* no goroutine calls the split map and every shard lock is free
NoShardThreads ==
    /\ smu = [i \in DOMAIN g.m |-> FreeLock]
    /\ gth = [t \in Threads |-> IdleCall]

\* a goroutine that is in no call on the lock-free map
IdleFree ==
    [pc |-> "idle", op |-> "", hash |-> 0, at |-> 0, load |-> 0, acc |-> 0,
     val |-> 0, ok |-> FALSE, err |-> Nil, nils |-> 0, read |-> FALSE]

\* the lock-free map is empty and no goroutine calls it
NoLockFree ==
    /\ lf = NewNativeSplitLockFreeMapUint64(0, <<NrBuckets>>)
    /\ lth = [t \in Threads |-> IdleFree]

\* neither Pop nor Shift has been called
NothingTaken == [op |-> "", item |-> Nil, ok |-> FALSE]

\* the generic containers are empty
NoSynced ==
    /\ syncedMap = NewSyncedMap(<<>>)
    /\ syncedSlice = NewSyncedSlice
    /\ offered = {}
    /\ taken = NothingTaken

\* the routing function is not under test
NoRoute ==
    /\ rin = [hash |-> NoHash, mod |-> 0]
    /\ rout = NoBucket

\* the entries stored in a table, and in all the shards that exist
Stored(t) == Cardinality(DOMAIN t.m)

RECURSIVE StoredIn(_, _)
StoredIn(sm, I) ==
    IF I = {} THEN 0
    ELSE LET i == CHOOSE x \in I : TRUE
         IN Stored(sm.m[i]) + StoredIn(sm, I \ {i})

StoredAll(sm) == StoredIn(sm, DOMAIN sm.m)

\* bucket arguments offered to PutMultiBucket: every slot and one past them
BucketArgs == 0 .. (NrBuckets + 1)

\* every shard slot made by the constructor still holds its table
AllShards(sm) == DOMAIN sm.m = 0 .. sm.nrOfBuckets

InitMap ==
    /\ target = "NativeMapUint64"
    /\ s = NewNativeMapUint64
    /\ g = NewNativeSplitMap(0, <<NrBuckets>>)
    /\ nm = NewNativeMap
    /\ NoRoute
    /\ NoSnapshot
    /\ NoBuild
    /\ NoReturn
    /\ NoVisit
    /\ NoThreads
    /\ NoShardThreads
    /\ NoLockFree
    /\ NoSynced

InitHashMap ==
    /\ target = "NativeMap"
    /\ s = NewNativeMapUint64
    /\ g = NewNativeSplitMap(0, <<NrBuckets>>)
    /\ nm = NewNativeMap
    /\ NoRoute
    /\ NoSnapshot
    /\ NoBuild
    /\ NoReturn
    /\ NoVisit
    /\ NoThreads
    /\ NoShardThreads
    /\ NoLockFree
    /\ NoSynced

\* the constructor is given a bucket count from 1 up to NrBuckets
InitSplit ==
    /\ target = "NativeSplitMap"
    /\ s = NewNativeMapUint64
    /\ \E buckets \in 1 .. NrBuckets : g = NewNativeSplitMap(0, <<buckets>>)
    /\ nm = NewNativeMap
    /\ NoRoute
    /\ NoSnapshot
    /\ NoBuild
    /\ NoReturn
    /\ NoVisit
    /\ NoThreads
    /\ NoShardThreads
    /\ NoLockFree
    /\ NoSynced

Init == InitMap \/ InitSplit \/ InitHashMap

\* one call on the NativeMapUint64, with result r
MapStep(r) ==
    /\ target = "NativeMapUint64"
    /\ Stored(r.s) <= MaxLen
    /\ s' = r.s
    /\ UNCHANGED <<build, ret, visit, target, shardVars, freeVars, syncVars, g, nm, routeVars, snap, lockVars>>

MapPut(hash, n) == MapStep(NativeMapUint64_Put(s, hash, n))

MapPutMulti(hashes, n) == MapStep(NativeMapUint64_PutMulti(s, hashes, n))

MapSet(hash, value) == MapStep(NativeMapUint64_Set(s, hash, value))

MapSetIfExists(hash, value) == MapStep(NativeMapUint64_SetIfExists(s, hash, value))

MapSetIfNotExists(hash, value) == MapStep(NativeMapUint64_SetIfNotExists(s, hash, value))

MapDelete(hash) == MapStep(NativeMapUint64_Delete(s, hash))

\* one call on the NativeSplitMap, with result r
SplitStep(r) ==
    /\ target = "NativeSplitMap"
    /\ StoredAll(r.g) <= MaxLen
    /\ g' = r.g
    /\ snap' = IF snap.live THEN NativeSplitMap_Map_Live(r.g) ELSE snap
    /\ UNCHANGED <<build, ret, visit, target, shardVars, freeVars, syncVars, s, nm, routeVars, lockVars>>

SplitPut(hash, n) ==
    AllShards(g) /\ SplitStep(NativeSplitMap_Put(g, hash, n))

SplitPutMulti(hashes, n) ==
    AllShards(g) /\ SplitStep(NativeSplitMap_PutMulti(g, hashes, n))

SplitPutMultiBucket(bucket, hashes, n) ==
    AllShards(g) /\ SplitStep(NativeSplitMap_PutMultiBucket(g, bucket, hashes, n))

SplitSet(hash, value) ==
    AllShards(g) /\ SplitStep(NativeSplitMap_Set(g, hash, value))

SplitSetIfExists(hash, value) ==
    AllShards(g) /\ SplitStep(NativeSplitMap_SetIfExists(g, hash, value))

SplitSetIfNotExists(hash, value) ==
    AllShards(g) /\ SplitStep(NativeSplitMap_SetIfNotExists(g, hash, value))

SplitDelete(hash) == SplitStep(NativeSplitMap_Delete(g, hash))

\* the tests' delete(m.m, bucket): a shard slot taken out of the table from
\* outside the public interface, once; the tests then call Delete only
RemoveShard(bucket) ==
    /\ target = "NativeSplitMap"
    /\ AllShards(g)
    /\ bucket \in DOMAIN g.m
    /\ g' = [g EXCEPT !.m = [i \in (DOMAIN g.m) \ {bucket} |-> g.m[i]]]
    /\ UNCHANGED <<build, ret, visit, target, shardVars, freeVars, syncVars, s, nm, routeVars, snap, lockVars>>

\* one call on the NativeMap, leaving it as r; the counter is explored
\* from -MaxLen to MaxLen
HashMapStep(r) ==
    /\ target = "NativeMap"
    /\ r.length \in (0 - MaxLen) .. MaxLen
    /\ nm' = r
    /\ UNCHANGED <<build, ret, visit, target, shardVars, freeVars, syncVars, s, g, routeVars, snap, lockVars>>

HashMapPut(hash) == HashMapStep(NativeMap_Put(nm, hash))

HashMapPutMulti(hashes) == HashMapStep(NativeMap_PutMulti(nm, hashes))

HashMapDelete(hash) == HashMapStep(NativeMap_Delete(nm, hash))

NextHashMap ==
    \/ \E hash \in Hashes : HashMapPut(hash)
    \/ \E hashes \in Batches : HashMapPutMulti(hashes)
    \/ \E hash \in Hashes : HashMapDelete(hash)

NextMap ==
    \/ \E hash \in Hashes, n \in Values : MapPut(hash, n)
    \/ \E hashes \in Batches, n \in Values : MapPutMulti(hashes, n)
    \/ \E hash \in Hashes, value \in Values : MapSet(hash, value)
    \/ \E hash \in Hashes, value \in Values : MapSetIfExists(hash, value)
    \/ \E hash \in Hashes, value \in Values : MapSetIfNotExists(hash, value)
    \/ \E hash \in Hashes : MapDelete(hash)

NextSplit ==
    \/ \E hash \in Hashes, n \in Values : SplitPut(hash, n)
    \/ \E hashes \in Batches, n \in Values : SplitPutMulti(hashes, n)
    \/ \E bucket \in BucketArgs, hashes \in Batches, n \in Values : SplitPutMultiBucket(bucket, hashes, n)
    \/ \E hash \in Hashes, value \in Values : SplitSet(hash, value)
    \/ \E hash \in Hashes, value \in Values : SplitSetIfExists(hash, value)
    \/ \E hash \in Hashes, value \in Values : SplitSetIfNotExists(hash, value)
    \/ \E hash \in Hashes : SplitDelete(hash)

Next == NextMap \/ NextSplit \/ NextHashMap

\* the public operations, called one after another
Spec == Init /\ [][Next]_vars

NextHarness ==
    \/ NextSplit
    \/ \E bucket \in 0 .. NrBuckets : RemoveShard(bucket)

\* the public operations of the split map plus the tests' removal of a shard
SpecHarness == InitSplit /\ [][NextHarness]_vars

\* the call Map(), whose result the caller keeps
SplitMap ==
    /\ target = "NativeSplitMap"
    /\ AllShards(g)
    /\ snap' = NativeSplitMap_Map(g)
    /\ UNCHANGED <<build, ret, visit, target, shardVars, freeVars, syncVars, s, g, nm, routeVars, lockVars>>

\* one call on the container Map() returned, with result r; a container
\* that is the map's own storage carries the write into the map
SnapStep(r, rg) ==
    /\ target = "NativeSplitMap"
    /\ snap.taken
    /\ Stored(r.s) <= MaxLen
    /\ snap' = [snap EXCEPT !.s = r.s]
    /\ g' = IF snap.live THEN rg.g ELSE g
    /\ UNCHANGED <<build, ret, visit, target, shardVars, freeVars, syncVars, s, nm, routeVars, lockVars>>

SnapPut(hash, n) ==
    SnapStep(NativeMapUint64_Put(snap.s, hash, n), NativeSplitMap_Put(g, hash, n))

SnapSet(hash, value) ==
    SnapStep(NativeMapUint64_Set(snap.s, hash, value), NativeSplitMap_Set(g, hash, value))

SnapDelete(hash) ==
    SnapStep(NativeMapUint64_Delete(snap.s, hash), NativeSplitMap_Delete(g, hash))

NextSnapshot ==
    \/ \E hash \in Hashes, n \in Values : SplitPut(hash, n)
    \/ \E hash \in Hashes, value \in Values : SplitSet(hash, value)
    \/ \E hash \in Hashes : SplitDelete(hash)
    \/ SplitMap
    \/ \E hash \in Hashes, n \in Values : SnapPut(hash, n)
    \/ \E hash \in Hashes, value \in Values : SnapSet(hash, value)
    \/ \E hash \in Hashes : SnapDelete(hash)

\* a split map, the container its Map() returned, and calls on both
SpecSnapshot == InitSplit /\ [][NextSnapshot]_vars

(* ------------------- a split map beside one table --------------------- *)
(* The program makes every routed call twice: on the NativeMapUint64 s and  *)
(* on the NativeSplitMap g.                                                 *)

InitBeside ==
    /\ target = "NativeSplitMap beside NativeMapUint64"
    /\ s = NewNativeMapUint64
    /\ \E buckets \in 1 .. NrBuckets : g = NewNativeSplitMap(0, <<buckets>>)
    /\ nm = NewNativeMap
    /\ NoRoute
    /\ NoSnapshot
    /\ NoBuild
    /\ NoReturn
    /\ NoVisit
    /\ NoThreads
    /\ NoShardThreads
    /\ NoLockFree
    /\ NoSynced

\* one call made on both, with results rs and rg
BesideStep(op, rs, rg) ==
    /\ target = "NativeSplitMap beside NativeMapUint64"
    /\ Stored(rs.s) <= MaxLen
    /\ s' = rs.s
    /\ g' = rg.g
    /\ ret' = [op |-> op, one |-> [ok |-> rs.ok, err |-> rs.err],
                         split |-> [ok |-> rg.ok, err |-> rg.err]]
    /\ UNCHANGED <<build, visit, target, shardVars, freeVars, syncVars, nm, routeVars, snap, lockVars>>

NextBeside ==
    \/ \E hash \in Hashes, n \in Values :
           BesideStep("Put", NativeMapUint64_Put(s, hash, n), NativeSplitMap_Put(g, hash, n))
    \/ \E hashes \in Batches, n \in Values :
           BesideStep("PutMulti", NativeMapUint64_PutMulti(s, hashes, n),
                      NativeSplitMap_PutMulti(g, hashes, n))
    \/ \E hash \in Hashes, value \in Values :
           BesideStep("Set", NativeMapUint64_Set(s, hash, value), NativeSplitMap_Set(g, hash, value))
    \/ \E hash \in Hashes, value \in Values :
           BesideStep("SetIfExists", NativeMapUint64_SetIfExists(s, hash, value),
                      NativeSplitMap_SetIfExists(g, hash, value))
    \/ \E hash \in Hashes, value \in Values :
           BesideStep("SetIfNotExists", NativeMapUint64_SetIfNotExists(s, hash, value),
                      NativeSplitMap_SetIfNotExists(g, hash, value))
    \/ \E hash \in Hashes :
           BesideStep("Delete", NativeMapUint64_Delete(s, hash), NativeSplitMap_Delete(g, hash))

\* the same routed calls on a split map and on one table
SpecBeside == InitBeside /\ [][NextBeside]_vars

(* ----------------------- goroutines on one table ----------------------- *)
(* A method of NativeMapUint64 run by a goroutine is two steps: it takes    *)
(* the table's lock and makes its existence test, then it runs the rest of *)
(* its body and the deferred unlock.                                        *)

Readers == {"Exists", "Get", "Length", "Keys", "Iter"}
Writers == {"Put", "PutMulti", "Set", "SetIfExists", "SetIfNotExists", "Delete"}

\* the locking as it would be if SetIfNotExists took the read lock
Locking_SetIfNotExistsShared(op) ==
    IF op \in Readers \cup {"SetIfNotExists"} THEN "RLock" ELSE "Lock"

\* the locking as it would be if PutMulti took the read lock
Locking_PutMultiShared(op) ==
    IF op \in Readers \cup {"PutMulti"} THEN "RLock" ELSE "Lock"

\* the locking as it would be if Delete took the read lock
Locking_DeleteShared(op) ==
    IF op \in Readers \cup {"Delete"} THEN "RLock" ELSE "Lock"

\* the locking as it would be if Put took the read lock
Locking_PutShared(op) ==
    IF op \in Readers \cup {"Put"} THEN "RLock" ELSE "Lock"

\* the lock call that opens each method
Locking(op) == IF op \in Readers THEN "RLock" ELSE "Lock"

\* sync.RWMutex: Lock waits for the writer and every reader to leave, RLock
\* for the writer
CanTake(m, mode) ==
    IF mode = "Lock" THEN ~m.writer /\ m.readers = 0 ELSE ~m.writer

Take(m, mode) ==
    IF mode = "Lock" THEN [m EXCEPT !.writer = TRUE] ELSE [m EXCEPT !.readers = m.readers + 1]

\* the unlocking as it would be if RUnlock were left out
Release_NoRUnlock(m, mode) ==
    IF mode = "Lock" THEN [m EXCEPT !.writer = FALSE] ELSE m

Release(m, mode) ==
    IF mode = "Lock" THEN [m EXCEPT !.writer = FALSE] ELSE [m EXCEPT !.readers = m.readers - 1]

\* goroutine t passes its own number as the value
ValueOf(t) == t

\* the calls a goroutine can make: a method and its hash or batch
Calls ==
    {[op |-> op, hash |-> h, hashes |-> <<>>] :
         op \in {"Put", "Set", "SetIfExists", "SetIfNotExists", "Delete", "Exists", "Get"}, h \in Hashes}
    \cup {[op |-> "PutMulti", hash |-> NoHash, hashes |-> hs] : hs \in Batches}
    \cup {[op |-> op, hash |-> NoHash, hashes |-> <<>>] : op \in {"Length", "Keys", "Iter"}}

\* the part of a method after its existence test, which gave c.seen
Body(t, c, v) ==
    LET stored == [m |-> (c.hash :> v) @@ t.m, length |-> t.length]
        counted == [m |-> (c.hash :> v) @@ t.m, length |-> t.length + 1]
        removed == [m |-> [k \in (DOMAIN t.m) \ {c.hash} |-> t.m[k]], length |-> t.length - 1]
        exists == Errorf(errWrapFormat, ErrHashAlreadyExists, NoBucket, NoBucket, c.hash)
        missing == Errorf(errWrapFormat, ErrHashDoesNotExist, NoBucket, NoBucket, c.hash)
    IN CASE c.op = "Put" ->
                IF c.seen THEN MapResult(t, FALSE, exists) ELSE MapResult(counted, FALSE, Nil)
         [] c.op = "PutMulti" -> NativeMapUint64_PutMulti(t, c.hashes, v)
         [] c.op = "Set" ->
                IF ~c.seen THEN MapResult(t, FALSE, missing) ELSE MapResult(stored, FALSE, Nil)
         [] c.op = "SetIfExists" ->
                IF ~c.seen THEN MapResult(t, FALSE, Nil) ELSE MapResult(stored, TRUE, Nil)
         [] c.op = "SetIfNotExists" ->
                IF c.seen THEN MapResult(t, FALSE, Nil) ELSE MapResult(counted, TRUE, Nil)
         [] c.op = "Delete" ->
                IF ~c.seen THEN MapResult(t, FALSE, missing) ELSE MapResult(removed, FALSE, Nil)
         [] OTHER -> MapResult(t, c.seen, Nil)

InitGoroutines ==
    /\ target = "goroutines"
    /\ s = NewNativeMapUint64
    /\ g = NewNativeSplitMap(0, <<NrBuckets>>)
    /\ nm = NewNativeMap
    /\ NoRoute
    /\ NoSnapshot
    /\ NoBuild
    /\ NoReturn
    /\ NoVisit
    /\ NoThreads
    /\ NoShardThreads
    /\ NoLockFree
    /\ NoSynced

\* goroutine t enters the method of call c: it takes the lock and tests
\* whether the hash is stored
Enter(t, c) ==
    /\ th[t].pc = "idle"
    /\ CanTake(mu, Locking(c.op))
    /\ LET seen == c.hash # NoHash /\ NativeMapUint64_Exists(s, c.hash)
           call == [pc |-> "locked", op |-> c.op, hash |-> c.hash,
                    hashes |-> c.hashes, seen |-> seen, ok |-> FALSE]
       IN /\ Stored(Body(s, call, ValueOf(t)).s) <= MaxLen
          /\ th' = [th EXCEPT ![t] = call]
    /\ mu' = Take(mu, Locking(c.op))
    /\ UNCHANGED <<build, ret, visit, target, shardVars, freeVars, syncVars, s, g, nm, routeVars, snap, s0>>

\* goroutine t runs the rest of the method and unlocks; after is what the
\* caller does with the result: "idle" drops it, "done" keeps it
Leave(t, after) ==
    /\ th[t].pc = "locked"
    /\ LET r == Body(s, th[t], ValueOf(t))
       IN /\ s' = r.s
          /\ th' = [th EXCEPT ![t] = IF after = "idle" THEN IdleThread
                                      ELSE [th[t] EXCEPT !.pc = "done", !.ok = r.ok]]
    /\ mu' = Release(mu, Locking(th[t].op))
    /\ UNCHANGED <<build, ret, visit, target, shardVars, freeVars, syncVars, g, nm, routeVars, snap, s0>>

NextLock ==
    \/ \E t \in Threads, c \in Calls : Enter(t, c)
    \/ \E t \in Threads : Leave(t, "idle")

\* goroutines that call the methods of one table over and over
SpecLock == InitGoroutines /\ [][NextLock]_vars

\* before the goroutines start, the program fills the table
Fill(hash, n) ==
    /\ \A t \in Threads : th[t].pc = "idle"
    /\ mu = [writer |-> FALSE, readers |-> 0]
    /\ LET r == NativeMapUint64_Put(s, hash, n)
       IN /\ Stored(r.s) < MaxLen
          /\ s' = r.s
          /\ s0' = r.s
    /\ UNCHANGED <<build, ret, visit, target, shardVars, freeVars, syncVars, g, nm, routeVars, snap, mu, th>>

NextRace ==
    \/ \E hash \in Hashes, n \in Values : Fill(hash, n)
    \/ \E t \in Threads, hash \in Hashes :
           Enter(t, [op |-> "SetIfNotExists", hash |-> hash, hashes |-> <<>>])
    \/ \E t \in Threads : Leave(t, "done")

\* two goroutines that each call SetIfNotExists once and keep the result
SpecRace == InitGoroutines /\ [][NextRace]_vars

(* ----------------------- goroutines on a split map --------------------- *)
(* A method of the split map is a series of calls on shard tables.  Each    *)
(* shard call is the two steps above: take that table's lock and test,     *)
(* then run the body and unlock.  Between two shard calls the goroutine    *)
(* holds no lock.  NativeSplitMapUint64 has the same shard tables and      *)
(* differs in Length, which reads the field length of each table itself.   *)

\* the lock as it would be with one lock for the whole split map
ShardLock_Global(i) == 0

\* every shard table carries its own lock
ShardLock(i) == i

KeyedMethods == {"Put", "Set", "SetIfExists", "SetIfNotExists", "Get", "Exists"}

SplitCall(op, hash, hashes, bucket) ==
    [op |-> op, hash |-> hash, hashes |-> hashes, bucket |-> bucket]

KeyedCalls == {SplitCall(op, h, <<>>, NoBucket) : op \in KeyedMethods \cup {"Delete"}, h \in Hashes}

PutMultiCalls == {SplitCall("PutMulti", NoHash, hs, NoBucket) : hs \in Batches}

PutMultiBucketCalls == {SplitCall("PutMultiBucket", NoHash, hs, b) : hs \in Batches, b \in BucketArgs}

WholeMapCalls == {SplitCall(op, NoHash, <<>>, NoBucket) : op \in {"Length", "Keys", "Map", "Iter"}}

\* how a split map of the given kind reads the count of a shard: through the
\* table's Length method, or from its field
LengthRead(kind) == IF kind = "NativeSplitMapUint64" THEN "length" ELSE "Length"

\* the goroutine is about to make the shard call method on the table at
Ready(rec, method, at) == [rec EXCEPT !.pc = "ready", !.method = method, !.at = at]

\* the split-map method has returned
Returned(rec, ok, err) ==
    [IdleCall EXCEPT !.pc = "done", !.op = rec.op, !.hash = rec.hash, !.hashes = rec.hashes,
                     !.ok = ok, !.err = err, !.acc = rec.acc, !.keys = rec.keys,
                     !.out = rec.out, !.raced = rec.raced, !.totals = rec.totals,
                     !.reads = rec.reads]

\* after the last shard table the method returns, otherwise it goes on to
\* the next table
NextShard(sm, rec, method) ==
    IF rec.at = sm.nrOfBuckets THEN Returned([rec EXCEPT !.hash = NoHash], TRUE, Nil)
    ELSE Ready([rec EXCEPT !.hash = NoHash], method, rec.at + 1)

\* the part of a split-map method before its first shard call
Begin(sm, kind, c) ==
    LET rec == [IdleCall EXCEPT !.op = c.op, !.hash = c.hash, !.hashes = c.hashes]
        route(h) == Bytes2Uint16Buckets(h, sm.nrOfBuckets)
    IN CASE c.op \in KeyedMethods -> Ready(rec, c.op, route(c.hash))
         [] c.op = "Delete" ->
                IF route(c.hash) \notin DOMAIN sm.m
                THEN Returned(rec, FALSE,
                         Errorf("%w: %d", ErrBucketDoesNotExist, route(c.hash), NoBucket, NoHash))
                ELSE Ready(rec, "Exists", route(c.hash))
         [] c.op = "PutMulti" ->
                IF Len(c.hashes) = 0 THEN Returned(rec, FALSE, Nil)
                ELSE Ready([rec EXCEPT !.k = 1, !.hash = c.hashes[1]], "Put", route(c.hashes[1]))
         [] c.op = "PutMultiBucket" ->
                IF c.bucket > sm.nrOfBuckets
                THEN Returned(rec, FALSE,
                         Errorf("%w: %d, max bucket is %d", ErrBucketDoesNotExist,
                                c.bucket, sm.nrOfBuckets, NoHash))
                ELSE Ready(rec, "PutMulti", c.bucket)
         [] c.op = "Iter" -> Ready(rec, "Iter", 0)
         [] OTHER -> Ready(rec, LengthRead(kind), 0)

\* Length as it would be with the loop written i < g.nrOfBuckets
LengthStep_SkipLast(sm, rec, n) ==
    LET counted == [rec EXCEPT !.acc = rec.acc + n]
    IN IF rec.at + 1 < sm.nrOfBuckets THEN Ready(counted, rec.method, rec.at + 1)
       ELSE IF rec.op = "Length" THEN Returned(counted, TRUE, Nil)
       ELSE Ready(counted, "Keys", 0)

\* Length, and the Length call that opens Keys and Map, after the count n
\* of the table rec.at was read
LengthStep(sm, rec, n) ==
    LET counted == [rec EXCEPT !.acc = rec.acc + n]
    IN IF rec.at < sm.nrOfBuckets THEN Ready(counted, rec.method, rec.at + 1)
       ELSE IF rec.op = "Length" THEN Returned(counted, TRUE, Nil)
       ELSE Ready(counted, "Keys", 0)

\* the call a shard table sees; of a batch handed to the table's PutMulti,
\* the keys its loop has not reached yet (rec.k were inserted)
ShardCall(rec) ==
    [op |-> rec.method, hash |-> rec.hash, seen |-> rec.seen,
     hashes |-> IF rec.method = "PutMulti"
                THEN SubSeq(rec.hashes, rec.k + 1, Len(rec.hashes)) ELSE rec.hashes]

\* the table's PutMulti, holding the lock, can insert the next key of its
\* batch
CanInsert(rec, sh) ==
    /\ rec.pc = "locked"
    /\ rec.method = "PutMulti"
    /\ rec.k < Len(rec.hashes)
    /\ ~NativeMapUint64_Exists(sh, rec.hashes[rec.k + 1])

\* the part of a split-map method after the shard call rec.method returned r
\* from the table sh; ks is the slice a Keys call returned
Continue(sm, rec, sh, r, ks) ==
    CASE rec.op \in KeyedMethods -> Returned(rec, r.ok, r.err)
      [] rec.op = "Delete" /\ rec.method = "Exists" ->
             IF ~rec.seen
             THEN Returned(rec, FALSE,
                      Errorf("%w in bucket %d: %s", ErrHashDoesNotExist, rec.at, NoBucket, rec.hash))
             ELSE Ready(rec, "Delete", rec.at)
      [] rec.op = "Delete" /\ rec.method = "Delete" -> Returned(rec, FALSE, r.err)
      [] rec.op = "PutMulti" ->
             IF r.err # Nil
             THEN Returned(rec, FALSE,
                      Errorf("failed to put multi in bucket %d: %w", r.err, rec.at, NoBucket, NoHash))
             ELSE IF rec.k = Len(rec.hashes) THEN Returned(rec, FALSE, Nil)
             ELSE Ready([rec EXCEPT !.k = rec.k + 1, !.hash = rec.hashes[rec.k + 1]], "Put",
                        Bytes2Uint16Buckets(rec.hashes[rec.k + 1], sm.nrOfBuckets))
      [] rec.op = "PutMultiBucket" -> Returned(rec, FALSE, r.err)
      [] rec.op = "Iter" -> NextShard(sm, rec, "Iter")
      [] rec.method = "Length" -> LengthStep(sm, rec, NativeMapUint64_Length(sh))
      [] rec.op = "Keys" -> NextShard(sm, [rec EXCEPT !.keys = rec.keys \o ks], "Keys")
      [] rec.op = "Map" /\ rec.method = "Keys" ->
             IF ks = <<>> THEN NextShard(sm, rec, "Keys")
             ELSE Ready([rec EXCEPT !.keys = ks, !.k = 1, !.hash = ks[1]], "Get", rec.at)
      [] rec.op = "Map" /\ rec.method = "Get" ->
             LET val == NativeMapUint64_Get(sh, rec.hash)[1]
                 put == [rec EXCEPT !.out = NativeMapUint64_Put(rec.out, rec.hash, val).s]
             IN IF rec.k < Len(rec.keys)
                THEN Ready([put EXCEPT !.k = rec.k + 1, !.hash = rec.keys[rec.k + 1]], "Get", rec.at)
                ELSE NextShard(sm, [put EXCEPT !.keys = <<>>, !.k = 0], "Keys")

\* a goroutine inside Length keeps, for the record, the number of keys each
\* table held at the instant Length read its count
Noted(rec, sh) ==
    IF rec.op = "Length" THEN [rec EXCEPT !.reads = Append(rec.reads, Stored(sh))] ELSE rec

\* the key-to-value pairs a table holds
PairsOf(tbl) == {<<k, tbl.m[k]>> : k \in DOMAIN tbl.m}

\* the key-to-value pairs the shards of a split map hold
SplitPairs(sm) == UNION {PairsOf(sm.m[i]) : i \in DOMAIN sm.m}

\* a goroutine inside Length keeps, for the record, every number of stored
\* entries the split map had while the call ran; a goroutine inside Map
\* keeps every pair the split map held while the call ran
Watch(rec, sm) ==
    IF rec.op = "Length" /\ rec.pc \in {"ready", "locked"}
    THEN [rec EXCEPT !.totals = rec.totals \cup {StoredAll(sm)}]
    ELSE IF rec.op = "Map" /\ rec.pc \in {"ready", "locked"}
    THEN [rec EXCEPT !.totals = rec.totals \cup SplitPairs(sm)]
    ELSE rec

\* the split maps whose goroutines are followed
SplitKinds == {"NativeSplitMap goroutines", "NativeSplitMapUint64 goroutines"}

InitShards(kinds) ==
    /\ target \in kinds
    /\ s = NewNativeMapUint64
    /\ g = NewNativeSplitMap(0, <<NrBuckets>>)
    /\ nm = NewNativeMap
    /\ NoRoute
    /\ NoSnapshot
    /\ NoBuild
    /\ NoReturn
    /\ NoVisit
    /\ NoThreads
    /\ NoShardThreads
    /\ NoLockFree
    /\ NoSynced

\* the entries a call can add
Inserts(op, hashes) ==
    IF op \in {"Put", "SetIfNotExists"} THEN 1
    ELSE IF op \in {"PutMulti", "PutMultiBucket"} THEN Len(hashes)
    ELSE 0

\* the entries the running calls of the goroutines in T can still add
RECURSIVE Pending(_)
Pending(T) ==
    IF T = {} THEN 0
    ELSE LET u == CHOOSE x \in T : TRUE
         IN (IF gth[u].pc \in {"ready", "locked"} THEN Inserts(gth[u].op, gth[u].hashes) ELSE 0)
                + Pending(T \ {u})

\* goroutine t calls a method of the split map and runs it up to its first
\* shard call
SplitStart(t, kind, c, watch) ==
    /\ target = kind \o " goroutines"
    /\ gth[t].pc = "idle"
    /\ StoredAll(g) + Pending(Threads) + Inserts(c.op, c.hashes) <= MaxLen
    /\ LET rec == Begin(g, kind, c)
       IN gth' = [gth EXCEPT ![t] = IF watch THEN Watch(rec, g) ELSE rec]
    /\ UNCHANGED <<build, ret, visit, target, s, g, nm, routeVars, snap, lockVars, smu, freeVars, syncVars>>

\* goroutine t enters the shard method: it takes the lock of that table and
\* tests whether the hash is stored there
ShardEnter(t) ==
    /\ gth[t].pc = "ready"
    /\ gth[t].method # "length"
    /\ LET rec == gth[t]
           l == ShardLock(rec.at)
           mode == Locking(rec.method)
       IN /\ CanTake(smu[l], mode)
          /\ smu' = [smu EXCEPT ![l] = Take(smu[l], mode)]
          /\ gth' = [gth EXCEPT ![t] =
                        [rec EXCEPT !.pc = "locked",
                                    !.seen = rec.hash # NoHash
                                                 /\ NativeMapUint64_Exists(g.m[rec.at], rec.hash),
                                    !.held = rec.held \cup {l}]]
    /\ UNCHANGED <<build, ret, visit, target, s, g, nm, routeVars, snap, lockVars, freeVars, syncVars>>

\* goroutine t, inside the table's PutMulti, runs one round of its loop:
\* the key is absent, it is stored and counted
ShardInsert(t, watch) ==
    /\ CanInsert(gth[t], g.m[gth[t].at])
    /\ LET rec == gth[t]
           r == NativeMapUint64_Put(g.m[rec.at], rec.hashes[rec.k + 1], ValueOf(t))
           sm == [g EXCEPT !.m[rec.at] = r.s]
       IN /\ g' = sm
          /\ gth' = [u \in Threads |->
                        IF u = t THEN [rec EXCEPT !.k = rec.k + 1]
                        ELSE IF watch THEN Watch(gth[u], sm) ELSE gth[u]]
    /\ UNCHANGED <<build, ret, visit, target, s, nm, routeVars, snap, lockVars, smu, freeVars, syncVars>>

\* goroutine t runs the rest of the shard method, unlocks and goes on in the
\* split-map method up to its next shard call or its return
ShardLeave(t, after, watch) ==
    /\ gth[t].pc = "locked"
    /\ ~CanInsert(gth[t], g.m[gth[t].at])
    /\ visit[t].call.pc \notin {"ready", "locked"}
    /\ LET rec == gth[t]
           sh == g.m[rec.at]
           r == Body(sh, ShardCall(rec), ValueOf(t))
           sm == [g EXCEPT !.m[rec.at] = r.s]
           l == ShardLock(rec.at)
       IN /\ g' = sm
          /\ smu' = [smu EXCEPT ![l] = Release(smu[l], Locking(rec.method))]
          /\ \E ks \in (IF rec.method = "Keys" THEN NativeMapUint64_Keys(sh) ELSE {<<>>}) :
                 LET freed == [rec EXCEPT !.held = rec.held \ {l}]
                     next == Continue(sm, IF watch THEN Noted(freed, sh) ELSE freed, sh, r, ks)
                     mine == IF next.pc = "done" /\ after = "idle" THEN IdleCall ELSE next
                 IN gth' = [u \in Threads |->
                               IF u = t THEN (IF watch THEN Watch(mine, sm) ELSE mine)
                               ELSE IF watch THEN Watch(gth[u], sm) ELSE gth[u]]
    /\ UNCHANGED <<build, ret, visit, target, s, nm, routeVars, snap, lockVars, freeVars, syncVars>>

\* the counts a read of the field length can give while the goroutines in
\* writers are inside a method of that table: any count from before their
\* bodies to after them
RacyCounts(sh, writers) ==
    LET ends == {sh.length} \cup
                    {Body(sh, ShardCall(gth[u]), ValueOf(u)).s.length : u \in writers}
    IN {n \in 0 .. (sh.length + MaxBatch) : \E a, b \in ends : a <= n /\ n <= b}

\* NativeSplitMapUint64.Length reads the field length of the table, taking
\* no lock
ReadLengthField(t, after) ==
    /\ gth[t].pc = "ready"
    /\ gth[t].method = "length"
    /\ LET rec == gth[t]
           sh == g.m[rec.at]
           writers == {u \in Threads \ {t} :
                          /\ gth[u].pc = "locked"
                          /\ gth[u].at = rec.at
                          /\ Locking(gth[u].method) = "Lock"}
       IN \E n \in RacyCounts(sh, writers) :
              LET next == LengthStep(g, Noted([rec EXCEPT !.raced = rec.raced \/ writers # {}], sh), n)
              IN gth' = [gth EXCEPT ![t] =
                            IF next.pc = "done" /\ after = "idle" THEN IdleCall ELSE next]
    /\ UNCHANGED <<build, ret, visit, target, s, g, nm, routeVars, snap, lockVars, smu, freeVars, syncVars>>

\* the first goroutine makes the calls that walk the shard tables or put a
\* batch, the second the calls on one key
NextShards ==
    \/ \E c \in WholeMapCalls \cup PutMultiCalls : SplitStart(1, "NativeSplitMap", c, FALSE)
    \/ \E c \in KeyedCalls : SplitStart(2, "NativeSplitMap", c, FALSE)
    \/ \E t \in Threads : ShardEnter(t)
    \/ \E t \in Threads : ShardLeave(t, "idle", FALSE)

\* goroutines that call the methods of one NativeSplitMap over and over
SpecShards == InitShards({"NativeSplitMap goroutines"}) /\ [][NextShards]_vars

\* the scheduler lets every goroutine that holds a lock run on, and a
\* sync.RWMutex hands the lock to every goroutine that waits for it: a
\* pending Lock holds new readers back, and the waiters are woken in turn
FairShards ==
    \A t \in Threads :
        /\ WF_vars(ShardLeave(t, "idle", FALSE))
        /\ SF_vars(ShardEnter(t))

\* the first goroutine walks the shard tables with Iter, whose visitor makes
\* no call on the map, and with Length, or puts a batch; the second makes
\* the calls on one key
NextFairShards ==
    \/ \E op \in {"Iter", "Length"} :
           SplitStart(1, "NativeSplitMap", SplitCall(op, NoHash, <<>>, NoBucket), FALSE)
    \/ \E c \in PutMultiCalls : SplitStart(1, "NativeSplitMap", c, FALSE)
    \/ \E c \in KeyedCalls : SplitStart(2, "NativeSplitMap", c, FALSE)
    \/ \E t \in Threads : ShardEnter(t)
    \/ \E t \in Threads : ShardLeave(t, "idle", FALSE)

\* goroutines that call the methods over and over under a fair scheduler
SpecFairShards == InitShards({"NativeSplitMap goroutines"}) /\ [][NextFairShards]_vars /\ FairShards

\* the first goroutine calls Length once and keeps what it returned; the
\* second puts and deletes keys over and over
NextLengths ==
    \/ \E kind \in {"NativeSplitMap", "NativeSplitMapUint64"} :
           SplitStart(1, kind, SplitCall("Length", NoHash, <<>>, NoBucket), TRUE)
    \/ \E kind \in {"NativeSplitMap", "NativeSplitMapUint64"}, op \in {"Put", "Delete"}, h \in Hashes :
           SplitStart(2, kind, SplitCall(op, h, <<>>, NoBucket), TRUE)
    \/ \E t \in Threads : ShardEnter(t)
    \/ ShardLeave(1, "done", TRUE)
    \/ ShardLeave(2, "idle", TRUE)
    \/ ReadLengthField(1, "done")

\* Length of a NativeSplitMap or of a NativeSplitMapUint64 while another
\* goroutine puts and deletes
SpecLengths == InitShards(SplitKinds) /\ [][NextLengths]_vars

InitBatch ==
    /\ target = "NativeSplitMap goroutines"
    /\ s = NewNativeMapUint64
    /\ \E buckets \in 1 .. NrBuckets : g = NewNativeSplitMap(0, <<buckets>>)
    /\ nm = NewNativeMap
    /\ NoRoute
    /\ NoSnapshot
    /\ NoBuild
    /\ NoReturn
    /\ NoVisit
    /\ NoThreads
    /\ NoShardThreads
    /\ NoLockFree
    /\ NoSynced

\* the first goroutine puts one batch, with PutMulti or PutMultiBucket; the
\* second looks keys up, and puts them, over and over
NextBatch ==
    \/ \E c \in PutMultiCalls : SplitStart(1, "NativeSplitMap", c, FALSE)
    \/ \E c \in PutMultiBucketCalls : SplitStart(1, "NativeSplitMap", c, FALSE)
    \/ \E op \in {"Exists", "Get", "Put"}, h \in Hashes :
           SplitStart(2, "NativeSplitMap", SplitCall(op, h, <<>>, NoBucket), FALSE)
    \/ \E t \in Threads : ShardEnter(t)
    \/ ShardInsert(1, FALSE)
    \/ ShardLeave(1, "done", FALSE)
    \/ ShardLeave(2, "idle", FALSE)

\* one batch put while another goroutine reads
SpecBatch == InitBatch /\ [][NextBatch]_vars

\* before the goroutines start, the program fills the split map; s0 keeps
\* its pairs as one table
SplitFill(hash, n) ==
    /\ target = "NativeSplitMap goroutines"
    /\ \A t \in Threads : gth[t].pc = "idle"
    /\ LET r == NativeSplitMap_Put(g, hash, n)
       IN /\ StoredAll(r.g) <= MaxLen
          /\ g' = r.g
          /\ s0' = NativeSplitMap_Map(r.g).s
    /\ UNCHANGED <<build, ret, visit, target, s, nm, routeVars, snap, mu, th, shardVars, freeVars, syncVars>>

\* two goroutines that each make one call on one key and keep the result:
\* Put on one table, Put or Delete on a split map
NextSameKey ==
    \/ \E hash \in Hashes, n \in Values : target = "goroutines" /\ Fill(hash, n)
    \/ \E t \in Threads, hash \in Hashes :
           target = "goroutines" /\ Enter(t, [op |-> "Put", hash |-> hash, hashes |-> <<>>])
    \/ \E t \in Threads : target = "goroutines" /\ Leave(t, "done")
    \/ \E hash \in Hashes, n \in Values : SplitFill(hash, n)
    \/ \E t \in Threads, op \in {"Put", "Delete"}, hash \in Hashes :
           SplitStart(t, "NativeSplitMap", SplitCall(op, hash, <<>>, NoBucket), FALSE)
    \/ \E t \in Threads : ShardEnter(t)
    \/ \E t \in Threads : ShardLeave(t, "done", FALSE)

SpecSameKey == InitShards({"goroutines", "NativeSplitMap goroutines"}) /\ [][NextSameKey]_vars

\* the first goroutine calls Map once and keeps the container; the second
\* puts, sets and deletes keys over and over
NextMapRace ==
    \/ \E hash \in Hashes, n \in Values : SplitFill(hash, n)
    \/ SplitStart(1, "NativeSplitMap", SplitCall("Map", NoHash, <<>>, NoBucket), TRUE)
    \/ \E op \in {"Put", "Set", "Delete"}, hash \in Hashes :
           SplitStart(2, "NativeSplitMap", SplitCall(op, hash, <<>>, NoBucket), TRUE)
    \/ \E t \in Threads : ShardEnter(t)
    \/ ShardLeave(1, "done", TRUE)
    \/ ShardLeave(2, "idle", TRUE)

\* Map() of a split map while another goroutine changes it
SpecMapRace == InitShards({"NativeSplitMap goroutines"}) /\ [][NextMapRace]_vars

\* the mutating methods a visitor may call
VisitorMethods == {"Put", "Set", "SetIfNotExists", "Delete"}

\* goroutine t is inside the traversal of a shard table by Iter, holding its
\* read lock, and the visitor f is called for an entry: f calls a method on
\* a key routed to that table, on the split map or, where the table is used
\* on its own, on the table
Visit(t, on, op, hash) ==
    /\ gth[t].pc = "locked"
    /\ gth[t].method = "Iter"
    /\ Stored(g.m[gth[t].at]) > 0
    /\ visit[t].on = ""
    /\ Bytes2Uint16Buckets(hash, g.nrOfBuckets) = gth[t].at
    /\ StoredAll(g) + Pending(Threads) + Inserts(op, <<>>) <= MaxLen
    /\ LET c == SplitCall(op, hash, <<>>, NoBucket)
           rec == IF on = "NativeSplitMap" THEN Begin(g, on, c)
                  ELSE Ready([IdleCall EXCEPT !.op = op, !.hash = hash], op, gth[t].at)
       IN visit' = [visit EXCEPT ![t] =
                       [on |-> on, shard |-> gth[t].at, call |-> rec,
                        stored |-> NativeMapUint64_Exists(g.m[gth[t].at], hash)]]
    /\ UNCHANGED <<build, ret, target, s, g, nm, routeVars, snap, lockVars, shardVars, freeVars, syncVars>>

\* the visitor's call enters the shard method: it takes the lock of that
\* table, which the same goroutine holds for reading
VisitEnter(t) ==
    /\ visit[t].call.pc = "ready"
    /\ LET rec == visit[t].call
           l == ShardLock(rec.at)
           mode == Locking(rec.method)
       IN /\ CanTake(smu[l], mode)
          /\ smu' = [smu EXCEPT ![l] = Take(smu[l], mode)]
          /\ visit' = [visit EXCEPT ![t].call =
                          [rec EXCEPT !.pc = "locked",
                                      !.seen = NativeMapUint64_Exists(g.m[rec.at], rec.hash),
                                      !.held = rec.held \cup {l}]]
    /\ UNCHANGED <<build, ret, target, s, g, nm, routeVars, snap, lockVars, gth, freeVars, syncVars>>

\* the visitor's call runs the rest of the shard method, unlocks and goes on
\* up to its next shard call or its return to the visitor
VisitLeave(t) ==
    /\ visit[t].call.pc = "locked"
    /\ LET rec == visit[t].call
           sh == g.m[rec.at]
           r == Body(sh, ShardCall(rec), ValueOf(t))
           sm == [g EXCEPT !.m[rec.at] = r.s]
           l == ShardLock(rec.at)
       IN /\ g' = sm
          /\ smu' = [smu EXCEPT ![l] = Release(smu[l], Locking(rec.method))]
          /\ visit' = [visit EXCEPT ![t].call =
                          Continue(sm, [rec EXCEPT !.held = rec.held \ {l}], sh, r, <<>>)]
    /\ UNCHANGED <<build, ret, target, s, nm, routeVars, snap, lockVars, gth, freeVars, syncVars>>

\* the first goroutine calls Iter once with a visitor that calls a mutating
\* method; the second makes calls on one key over and over
NextVisitor ==
    \/ \E hash \in Hashes, n \in Values : SplitFill(hash, n)
    \/ SplitStart(1, "NativeSplitMap", SplitCall("Iter", NoHash, <<>>, NoBucket), FALSE)
    \/ \E on \in {"NativeSplitMap", "NativeMapUint64"}, op \in VisitorMethods, hash \in Hashes :
           Visit(1, on, op, hash)
    \/ VisitEnter(1)
    \/ VisitLeave(1)
    \/ \E op \in {"Put", "Get"}, h \in Hashes :
           SplitStart(2, "NativeSplitMap", SplitCall(op, h, <<>>, NoBucket), FALSE)
    \/ \E t \in Threads : ShardEnter(t)
    \/ ShardLeave(1, "done", FALSE)
    \/ ShardLeave(2, "idle", FALSE)

\* Iter with a visitor that calls back into the map
SpecVisitor == InitBatch /\ [][NextVisitor]_vars

(* ---------------------- the split-map constructors --------------------- *)
(* NewNativeSplitMap, NewNativeSplitMapUint64 and the CR and Tidwall       *)
(* constructors run the same loop, for i := uint16(0); i <= nrOfBuckets;   *)
(* i++, storing a new table at m.m[i].  The tables are stored at 0, 1, 2   *)
(* and so on, so the table is kept as the number of indices it holds.       *)

\* the values of a uint16
Uint16 == 65536

\* the bucket counts handed to the constructors: the smallest, the default
\* and the largest two
BucketCounts == {1, NrBuckets, 1024, Uint16 - 2, Uint16 - 1}

\* the constructor has made the struct and is about to enter its loop
InitBuild ==
    /\ target = "constructors"
    /\ s = NewNativeMapUint64
    /\ g = NewNativeSplitMap(0, <<NrBuckets>>)
    /\ nm = NewNativeMap
    /\ NoRoute
    /\ NoSnapshot
    /\ NoThreads
    /\ NoShardThreads
    /\ NoLockFree
    /\ NoSynced
    /\ NoReturn
    /\ NoVisit
    /\ \E useBuckets \in BucketCounts :
           build = [pc |-> "loop", nrOfBuckets |-> useBuckets, i |-> 0, shards |-> 0]

\* one round of the loop: m.m[i] = a new table, then i++ in 16 bits
BuildRound ==
    /\ build.pc = "loop"
    /\ build.i <= build.nrOfBuckets
    /\ build' = [build EXCEPT !.shards = IF build.i = build.shards THEN build.shards + 1
                                         ELSE build.shards,
                              !.i = (build.i + 1) % Uint16]
    /\ UNCHANGED <<ret, visit, target, s, g, nm, routeVars, snap, lockVars, shardVars, freeVars, syncVars>>

\* the loop condition fails and the constructor returns
BuildReturn ==
    /\ build.pc = "loop"
    /\ build.i > build.nrOfBuckets
    /\ build' = [build EXCEPT !.pc = "returned"]
    /\ UNCHANGED <<ret, visit, target, s, g, nm, routeVars, snap, lockVars, shardVars, freeVars, syncVars>>

NextBuild == BuildRound \/ BuildReturn

\* a constructor call that is always given the time to run
SpecBuild == InitBuild /\ [][NextBuild]_vars /\ WF_vars(NextBuild)

(* ------------------------- the lock-free map --------------------------- *)
(* Used by one caller, a method of NativeSplitLockFreeMapUint64 is one      *)
(* step.                                                                    *)

InitLockFree ==
    /\ target = "NativeSplitLockFreeMapUint64"
    /\ s = NewNativeMapUint64
    /\ g = NewNativeSplitMap(0, <<NrBuckets>>)
    /\ nm = NewNativeMap
    /\ NoRoute
    /\ NoSnapshot
    /\ NoBuild
    /\ NoReturn
    /\ NoVisit
    /\ NoThreads
    /\ NoShardThreads
    /\ \E buckets \in 1 .. NrBuckets : lf = NewNativeSplitLockFreeMapUint64(0, <<buckets>>)
    /\ lth = [t \in Threads |-> IdleFree]
    /\ NoSynced

\* the call Put(hash, n) by the only caller
LockFreePut(hash, n) ==
    /\ target = "NativeSplitLockFreeMapUint64"
    /\ lf' = NativeSplitLockFreeMapUint64_Put(lf, hash, n).f
    /\ UNCHANGED <<build, ret, visit, target, s, g, nm, routeVars, snap, lockVars, shardVars, lth, syncVars>>

\* a lock-free map used by one caller
SpecLockFree == InitLockFree /\ [][\E hash \in NumericKeys, n \in Values : LockFreePut(hash, n)]_vars

(* -------------------- goroutines on the lock-free map ------------------- *)
(* Put is three steps: the lookup s.m[hash], the store s.m[hash] = n and    *)
(* the atomic s.length.Add(1).  Get and Exists are one lookup.  Length      *)
(* loads the counter of one table after another.  A goroutine is inside a   *)
(* table from its call until its last access to the table's Go map.  A      *)
(* lookup or store made while another goroutine is inside the same table,  *)
(* one of the two in Put, is a data race on the Go map: the runtime may    *)
(* stop the program with a fatal error, and otherwise the access may see    *)
(* or leave the entry either way.                                           *)

\* what the callers promise: nothing, never the same key at once, never the
\* same shard at once, or every Put before the first read
Rules ==
    {"lock-free goroutines", "lock-free goroutines on distinct keys",
     "lock-free goroutines on distinct shards", "lock-free reads after writes"}

FreeReads == {"Get", "Exists", "Length"}

\* goroutine u is inside the Go map of the table i
InsideTable(u, i) == lth[u].pc \in {"lookup", "store"} /\ lth[u].at = i

\* goroutine u is inside a call
InsideCall(u) == lth[u].pc \in {"lookup", "store", "count", "walk"}

\* goroutine t may make the call under the callers' promise
Allowed(t, op, hash) ==
    LET others == Threads \ {t}
        clash(u, same) ==
            /\ InsideCall(u)
            /\ lth[u].op # "Length"
            /\ same
            /\ op = "Put" \/ lth[u].op = "Put"
    IN CASE target = "lock-free goroutines on distinct keys" ->
                op = "Length" \/ \A u \in others : ~clash(u, lth[u].hash = hash)
         [] target = "lock-free goroutines on distinct shards" ->
                op = "Length"
                    \/ \A u \in others : ~clash(u, lth[u].hash % lf.nrOfBuckets = hash % lf.nrOfBuckets)
         [] target = "lock-free reads after writes" ->
                IF op = "Put"
                THEN \A u \in Threads : ~lth[u].read /\ ~InsideCall(u)
                ELSE \A u \in others : ~(InsideCall(u) /\ lth[u].op = "Put")
         [] OTHER -> TRUE

\* the entries counted so far and the Put calls that can still count one
Counted ==
    NativeSplitLockFreeMapUint64_Length(lf)
        + Cardinality({u \in Threads : lth[u].op = "Put" /\ lth[u].pc \in {"lookup", "store", "count"}})

InitFree(rules) ==
    /\ target \in rules
    /\ s = NewNativeMapUint64
    /\ g = NewNativeSplitMap(0, <<NrBuckets>>)
    /\ nm = NewNativeMap
    /\ NoRoute
    /\ NoSnapshot
    /\ NoBuild
    /\ NoReturn
    /\ NoVisit
    /\ NoThreads
    /\ NoShardThreads
    /\ NoLockFree
    /\ NoSynced

\* goroutine t calls Put, Get or Exists: it finds the table of the key
FreeCall(t, op, hash) ==
    /\ target \in Rules
    /\ lth[t].pc = "idle"
    /\ Allowed(t, op, hash)
    /\ op = "Put" => Counted < MaxLen
    /\ lth' = [lth EXCEPT ![t] =
                  [IdleFree EXCEPT !.pc = "lookup", !.op = op, !.hash = hash,
                                   !.at = LockFreeShard(lf, hash), !.nils = lth[t].nils,
                                   !.read = lth[t].read \/ op \in FreeReads]]
    /\ UNCHANGED <<build, ret, visit, target, s, g, nm, routeVars, snap, lockVars, shardVars, lf, syncVars>>

\* goroutine t calls Length
FreeLength(t) ==
    /\ target \in Rules
    /\ lth[t].pc = "idle"
    /\ Allowed(t, "Length", 0)
    /\ lth' = [lth EXCEPT ![t] =
                  [IdleFree EXCEPT !.pc = "walk", !.op = "Length", !.nils = lth[t].nils,
                                   !.read = TRUE]]
    /\ UNCHANGED <<build, ret, visit, target, s, g, nm, routeVars, snap, lockVars, shardVars, lf, syncVars>>

\* the access goroutine t is about to make to its table is a data race
Racing(t) ==
    \E u \in Threads \ {t} :
        InsideTable(u, lth[t].at) /\ (lth[t].op = "Put" \/ lth[u].op = "Put")

\* the call of goroutine t has returned: a Put leaves its error, a read its
\* key and what it returned
Return(rec, val, ok, err) ==
    IF rec.op = "Put"
    THEN [IdleFree EXCEPT !.op = "Put", !.err = err, !.read = rec.read,
                          !.nils = IF err = Nil THEN rec.nils + 1 ELSE rec.nils]
    ELSE [IdleFree EXCEPT !.op = rec.op, !.hash = rec.hash, !.val = val, !.ok = ok,
                          !.read = rec.read, !.nils = rec.nils]

\* the lookup s.m[hash] of Put, Get or Exists
FreeLookup(t) ==
    /\ lth[t].pc = "lookup"
    /\ LET rec == lth[t]
           tbl == lf.m[rec.at]
           got == NativeLockFreeMapUint64_Get(tbl, rec.hash)
           seen == IF Racing(t)
                   THEN {got} \cup {<<v, TRUE>> : v \in Values} \cup {<<0, FALSE>>}
                   ELSE {got}
       IN \E r \in seen :
              lth' = [lth EXCEPT ![t] =
                         IF rec.op = "Put"
                         THEN IF r[2] THEN Return(rec, 0, FALSE, ErrHashAlreadyExists)
                              ELSE [rec EXCEPT !.pc = "store"]
                         ELSE Return(rec, IF rec.op = "Get" THEN r[1] ELSE 0, r[2], Nil)]
    /\ UNCHANGED <<build, ret, visit, target, s, g, nm, routeVars, snap, lockVars, shardVars, lf, syncVars>>

\* the store s.m[hash] = n of Put; a racing store may be lost
FreeStore(t) ==
    /\ lth[t].pc = "store"
    /\ LET rec == lth[t]
           tbl == lf.m[rec.at]
           stored == [tbl EXCEPT !.m = (rec.hash :> ValueOf(t)) @@ [k \in DOMAIN tbl.m \ {rec.hash} |-> tbl.m[k]]]
       IN /\ \E after \in (IF Racing(t) THEN {stored, tbl} ELSE {stored}) :
                 lf' = [lf EXCEPT !.m[rec.at] = after]
          /\ lth' = [lth EXCEPT ![t] = [rec EXCEPT !.pc = "count", !.load = tbl.length]]
    /\ UNCHANGED <<build, ret, visit, target, s, g, nm, routeVars, snap, lockVars, shardVars, syncVars>>

\* s.length.Add(1), after which Put returns nil
FreeCount(t) ==
    /\ lth[t].pc = "count"
    /\ LET rec == lth[t]
       IN /\ lf' = [lf EXCEPT !.m[rec.at].length = AtomicAdd(lf.m[rec.at].length, rec.load, 1)]
          /\ lth' = [lth EXCEPT ![t] = Return(rec, 0, FALSE, Nil)]
    /\ UNCHANGED <<build, ret, visit, target, s, g, nm, routeVars, snap, lockVars, shardVars, syncVars>>

\* one round of Length's loop: the atomic load of the counter of a table
FreeWalk(t) ==
    /\ lth[t].pc = "walk"
    /\ LET rec == lth[t]
           counted == [rec EXCEPT !.acc = rec.acc + NativeLockFreeMapUint64_Length(lf.m[rec.at])]
       IN lth' = [lth EXCEPT ![t] =
                     IF rec.at = lf.nrOfBuckets THEN Return(counted, counted.acc, TRUE, Nil)
                     ELSE [counted EXCEPT !.at = rec.at + 1]]
    /\ UNCHANGED <<build, ret, visit, target, s, g, nm, routeVars, snap, lockVars, shardVars, lf, syncVars>>

\* the runtime finds the racing map access and stops the program
FreeFatal(t) ==
    /\ lth[t].pc \in {"lookup", "store"}
    /\ Racing(t)
    /\ lth' = [u \in Threads |-> [lth[u] EXCEPT !.pc = "fatal"]]
    /\ UNCHANGED <<build, ret, visit, target, s, g, nm, routeVars, snap, lockVars, shardVars, lf, syncVars>>

\* one goroutine calls Put, the other any method
NextDisjoint ==
    \/ \E hash \in NumericKeys : FreeCall(1, "Put", hash)
    \/ \E op \in {"Put", "Get", "Exists"}, hash \in NumericKeys : FreeCall(2, op, hash)
    \/ FreeLength(2)
    \/ \E t \in Threads : FreeLookup(t)
    \/ \E t \in Threads : FreeStore(t)
    \/ \E t \in Threads : FreeCount(t)
    \/ \E t \in Threads : FreeWalk(t)
    \/ \E t \in Threads : FreeFatal(t)

\* goroutines that call Put with no promise
NextPuts ==
    \/ \E t \in Threads, hash \in NumericKeys : FreeCall(t, "Put", hash)
    \/ \E t \in Threads : FreeLookup(t)
    \/ \E t \in Threads : FreeStore(t)
    \/ \E t \in Threads : FreeCount(t)
    \/ \E t \in Threads : FreeFatal(t)

SpecFree == InitFree({"lock-free goroutines"}) /\ [][NextPuts]_vars

\* goroutines that never work on the same key, or on the same shard, at once
SpecDisjoint ==
    InitFree({"lock-free goroutines on distinct keys", "lock-free goroutines on distinct shards"})
        /\ [][NextDisjoint]_vars

\* every Put returns before the first Get, Exists or Length is called
NextPopulate ==
    \/ \E t \in Threads, op \in {"Put", "Get", "Exists"}, hash \in NumericKeys : FreeCall(t, op, hash)
    \/ \E t \in Threads : FreeLength(t)
    \/ \E t \in Threads : FreeLookup(t)
    \/ \E t \in Threads : FreeStore(t)
    \/ \E t \in Threads : FreeCount(t)
    \/ \E t \in Threads : FreeWalk(t)

SpecPopulate == InitFree({"lock-free reads after writes"}) /\ [][NextPopulate]_vars

(* ------------------------ the generic containers ----------------------- *)

\* the limits a SyncedMap is made with: none, or 0 .. MaxLen
Limits == {<<>>} \cup {<<limit>> : limit \in 0 .. MaxLen}

InitSyncedMap ==
    /\ target = "SyncedMap"
    /\ s = NewNativeMapUint64
    /\ g = NewNativeSplitMap(0, <<NrBuckets>>)
    /\ nm = NewNativeMap
    /\ NoRoute
    /\ NoSnapshot
    /\ NoBuild
    /\ NoReturn
    /\ NoVisit
    /\ NoThreads
    /\ NoShardThreads
    /\ NoLockFree
    /\ \E limit \in Limits : syncedMap = NewSyncedMap(limit)
    /\ syncedSlice = NewSyncedSlice
    /\ offered = {}
    /\ taken = NothingTaken

\* the call Set(key, value)
SyncedSet(key, value) ==
    /\ target = "SyncedMap"
    /\ syncedMap' = SyncedMap_Set(syncedMap, key, value)
    /\ offered' = offered \cup {key}
    /\ UNCHANGED <<build, ret, visit, target, s, g, nm, routeVars, snap, lockVars, shardVars, freeVars, syncedSlice, taken>>

\* the call SetMulti(keys, value)
SyncedSetMulti(keys, value) ==
    /\ target = "SyncedMap"
    /\ syncedMap' = SyncedMap_SetMulti(syncedMap, keys, value)
    /\ offered' = offered \cup {keys[i] : i \in DOMAIN keys}
    /\ UNCHANGED <<build, ret, visit, target, s, g, nm, routeVars, snap, lockVars, shardVars, freeVars, syncedSlice, taken>>

\* the call Delete(key)
SyncedDelete(key) ==
    /\ target = "SyncedMap"
    /\ syncedMap' = SyncedMap_Delete(syncedMap, key)
    /\ UNCHANGED <<build, ret, visit, target, s, g, nm, routeVars, snap, lockVars, shardVars, freeVars, syncedSlice, offered, taken>>

NextSyncedMap ==
    \/ \E key \in SyncedKeys, value \in Values : SyncedSet(key, value)
    \/ \E keys \in SyncedBatches, value \in Values : SyncedSetMulti(keys, value)
    \/ \E key \in SyncedKeys : SyncedDelete(key)

SpecSyncedMap == InitSyncedMap /\ [][NextSyncedMap]_vars

InitSyncedSlice ==
    /\ target = "SyncedSlice"
    /\ s = NewNativeMapUint64
    /\ g = NewNativeSplitMap(0, <<NrBuckets>>)
    /\ nm = NewNativeMap
    /\ NoRoute
    /\ NoSnapshot
    /\ NoBuild
    /\ NoReturn
    /\ NoVisit
    /\ NoThreads
    /\ NoShardThreads
    /\ NoLockFree
    /\ NoSynced

\* the call Append(item)
SyncedAppend(item) ==
    /\ target = "SyncedSlice"
    /\ SyncedSlice_Length(syncedSlice) <= MaxLen
    /\ syncedSlice' = SyncedSlice_Append(syncedSlice, item)
    /\ UNCHANGED <<build, ret, visit, target, s, g, nm, routeVars, snap, lockVars, shardVars, freeVars, syncedMap, offered, taken>>

\* the call Pop()
SyncedPop ==
    /\ target = "SyncedSlice"
    /\ LET r == SyncedSlice_Pop(syncedSlice)
       IN /\ syncedSlice' = r.c
          /\ taken' = [op |-> "Pop", item |-> r.item, ok |-> r.ok]
    /\ UNCHANGED <<build, ret, visit, target, s, g, nm, routeVars, snap, lockVars, shardVars, freeVars, syncedMap, offered>>

\* the call Shift()
SyncedShift ==
    /\ target = "SyncedSlice"
    /\ LET r == SyncedSlice_Shift(syncedSlice)
       IN /\ syncedSlice' = r.c
          /\ taken' = [op |-> "Shift", item |-> r.item, ok |-> r.ok]
    /\ UNCHANGED <<build, ret, visit, target, s, g, nm, routeVars, snap, lockVars, shardVars, freeVars, syncedMap, offered>>

NextSyncedSlice ==
    \/ \E item \in SyncedKeys : SyncedAppend(item)
    \/ SyncedPop
    \/ SyncedShift

SpecSyncedSlice == InitSyncedSlice /\ [][NextSyncedSlice]_vars

\* bytes and moduli handed to the routing function: the edge values of the
\* unit and fuzz tests
ByteSamples == {0, 1, 255}
RouteHashes == {<<a, b, c>> : a \in ByteSamples, b \in ByteSamples, c \in {0, 255}}
Mods == {1, 2, 3, 256, 1024, 65535}

InitRoute ==
    /\ target = "Bytes2Uint16Buckets"
    /\ s = NewNativeMapUint64
    /\ g = NewNativeSplitMap(0, <<NrBuckets>>)
    /\ nm = NewNativeMap
    /\ rin \in [hash : RouteHashes, mod : Mods]
    /\ rout = NoBucket
    /\ NoSnapshot
    /\ NoBuild
    /\ NoReturn
    /\ NoVisit
    /\ NoThreads
    /\ NoShardThreads
    /\ NoLockFree
    /\ NoSynced

\* the call Bytes2Uint16Buckets(hash, mod)
Route ==
    /\ target = "Bytes2Uint16Buckets"
    /\ rout = NoBucket
    /\ rout' = Bytes2Uint16Buckets(rin.hash, rin.mod)
    /\ UNCHANGED <<build, ret, visit, target, shardVars, freeVars, syncVars, s, g, nm, rin, snap, lockVars>>

\* the routing function called on one hash and one modulus
SpecRoute == InitRoute /\ [][Route]_vars

TypeOK ==
    /\ target \in {"Bytes2Uint16Buckets", "NativeMap", "NativeMapUint64", "NativeSplitMap", "goroutines",
                  "NativeSplitMap goroutines", "NativeSplitMapUint64 goroutines",
                  "NativeSplitLockFreeMapUint64", "SyncedMap", "SyncedSlice", "constructors",
                  "NativeSplitMap beside NativeMapUint64"} \cup Rules
    /\ mu.readers >= 0
    /\ nm.m \subseteq Hashes
    /\ DOMAIN s.m \subseteq Hashes
    /\ DOMAIN g.m \subseteq 0 .. g.nrOfBuckets
    /\ \A i \in DOMAIN g.m : DOMAIN g.m[i].m \subseteq Hashes

(* ------------------------------ claims --------------------------------- *)
(* A claim about what a call returns and changes is stated over every      *)
(* reachable state and every argument: the call's result is the method's   *)
(* operator applied to that state.                                         *)

\* the first position of hashes whose key is in stored or repeats an earlier
\* position; 0 when there is none
FirstRepeat(hashes, stored) ==
    LET hit(j) == hashes[j] \in stored \/ \E i \in 1 .. (j - 1) : hashes[i] = hashes[j]
    IN IF \E j \in 1 .. Len(hashes) : hit(j)
       THEN CHOOSE j \in 1 .. Len(hashes) : hit(j) /\ \A i \in 1 .. (j - 1) : ~hit(i)
       ELSE 0

\* the keys a split map finds through routing
Routed(sm) == {h \in Hashes : NativeSplitMap_Exists(sm, h)}

\* C1: on a split map every stored key sits in exactly one shard, the shard
\* at index Bytes2Uint16Buckets(key, Buckets()): no shard other than the
\* routed one ever holds the key.
C1_KeyOnlyInRoutedShard ==
    target = "NativeSplitMap" =>
        \A i \in DOMAIN g.m : \A h \in DOMAIN g.m[i].m :
            i = Bytes2Uint16Buckets(h, NativeSplitMap_Buckets(g))

\* C2: a Put(k, v) that returns nil makes Exists(k) true and Get(k) equal to
\* (v, true), and a present key keeps its Exists and Get results across every
\* call that is not a Set, SetIfExists or Delete of that key, on the
\* NativeMapUint64 and on the NativeSplitMap.
C2_PutThenGetUntilUpdate ==
    /\ \A k \in Hashes, v \in Values :
          /\ LET r == NativeSplitMap_Put(g, k, v)
             IN r.err = Nil =>
                    NativeSplitMap_Exists(r.g, k) /\ NativeSplitMap_Get(r.g, k) = <<v, TRUE>>
          /\ LET r == NativeMapUint64_Put(s, k, v)
             IN r.err = Nil =>
                    NativeMapUint64_Exists(r.s, k) /\ NativeMapUint64_Get(r.s, k) = <<v, TRUE>>
    /\ \A k \in Routed(g) :
          LET others == Hashes \ {k}
              after ==
                  {NativeSplitMap_Put(g, h, v).g : h \in Hashes, v \in Values}
                  \cup {NativeSplitMap_PutMulti(g, hs, v).g : hs \in Batches, v \in Values}
                  \cup {NativeSplitMap_PutMultiBucket(g, b, hs, v).g :
                            b \in BucketArgs, hs \in Batches, v \in Values}
                  \cup {NativeSplitMap_SetIfNotExists(g, h, v).g : h \in Hashes, v \in Values}
                  \cup {NativeSplitMap_Set(g, h, v).g : h \in others, v \in Values}
                  \cup {NativeSplitMap_SetIfExists(g, h, v).g : h \in others, v \in Values}
                  \cup {NativeSplitMap_Delete(g, h).g : h \in others}
          IN \A g2 \in after :
                 NativeSplitMap_Exists(g2, k) /\ NativeSplitMap_Get(g2, k) = NativeSplitMap_Get(g, k)
    /\ \A k \in DOMAIN s.m :
          LET others == Hashes \ {k}
              after ==
                  {NativeMapUint64_Put(s, h, v).s : h \in Hashes, v \in Values}
                  \cup {NativeMapUint64_PutMulti(s, hs, v).s : hs \in Batches, v \in Values}
                  \cup {NativeMapUint64_SetIfNotExists(s, h, v).s : h \in Hashes, v \in Values}
                  \cup {NativeMapUint64_Set(s, h, v).s : h \in others, v \in Values}
                  \cup {NativeMapUint64_SetIfExists(s, h, v).s : h \in others, v \in Values}
                  \cup {NativeMapUint64_Delete(s, h).s : h \in others}
          IN \A s2 \in after :
                 NativeMapUint64_Exists(s2, k) /\ NativeMapUint64_Get(s2, k) = NativeMapUint64_Get(s, k)

\* C2 witness: the split map holds a key put with value 2 while a Put of
\* another key with value 1 goes through.
C2_Witness ==
    /\ target = "NativeSplitMap"
    /\ \E k \in Hashes, k2 \in Hashes :
          /\ k # k2
          /\ NativeSplitMap_Get(g, k) = <<2, TRUE>>
          /\ NativeSplitMap_Put(g, k2, 1).err = Nil

\* C3: Put on a key that is already present returns an error matching
\* ErrHashAlreadyExists and changes nothing: not the stored value, not any
\* other entry, not Length().
C3_DuplicatePutRejected ==
    \A k \in Hashes, v2 \in Values :
        /\ NativeSplitMap_Exists(g, k) =>
               LET r == NativeSplitMap_Put(g, k, v2)
               IN /\ ErrorsIs(r.err, ErrHashAlreadyExists)
                  /\ r.g = g
                  /\ NativeSplitMap_Get(r.g, k) = NativeSplitMap_Get(g, k)
                  /\ NativeSplitMap_Length(r.g) = NativeSplitMap_Length(g)
        /\ NativeMapUint64_Exists(s, k) =>
               LET r == NativeMapUint64_Put(s, k, v2)
               IN /\ ErrorsIs(r.err, ErrHashAlreadyExists)
                  /\ r.s.m = s.m
                  /\ NativeMapUint64_Length(r.s) = NativeMapUint64_Length(s)

\* C3 witness: the split map holds k with value 1 next to another entry, and
\* Put(k, 2) is refused as a duplicate.
C3_Witness ==
    /\ target = "NativeSplitMap"
    /\ NativeSplitMap_Length(g) >= 2
    /\ \E k \in Hashes :
          /\ NativeSplitMap_Get(g, k) = <<1, TRUE>>
          /\ ErrorsIs(NativeSplitMap_Put(g, k, 2).err, ErrHashAlreadyExists)

\* C4: on a split map Delete of an absent key returns an error matching
\* ErrHashDoesNotExist and changes nothing; Delete of a present key returns
\* nil, makes Exists false, lowers Length() by exactly 1 and leaves every
\* other key and value as it was.
C4_DeleteAbsentAndPresent ==
    \A k \in Hashes :
        LET idx == Bytes2Uint16Buckets(k, NativeSplitMap_Buckets(g))
            r == NativeSplitMap_Delete(g, k)
        IN IF ~NativeSplitMap_Exists(g, k)
           THEN /\ ErrorsIs(r.err, ErrHashDoesNotExist)
                /\ r.g = g
           ELSE /\ r.err = Nil
                /\ ~NativeSplitMap_Exists(r.g, k)
                /\ NativeSplitMap_Length(r.g) = NativeSplitMap_Length(g) - 1
                /\ \A i \in DOMAIN g.m : \A h \in Hashes :
                       (i # idx \/ h # k) =>
                           /\ (h \in DOMAIN r.g.m[i].m) = (h \in DOMAIN g.m[i].m)
                           /\ h \in DOMAIN g.m[i].m => r.g.m[i].m[h] = g.m[i].m[h]

\* C4 witness: the split map holds two routed keys and Delete of one of them
\* returns nil.
C4_Witness ==
    /\ target = "NativeSplitMap"
    /\ \E k \in Hashes, k2 \in Hashes :
          /\ k # k2
          /\ NativeSplitMap_Exists(g, k)
          /\ NativeSplitMap_Exists(g, k2)
          /\ NativeSplitMap_Delete(g, k).err = Nil

\* C5: PutMulti(keys, v) on a split map inserts, in order, exactly the keys
\* before the first key that is already present (an earlier occurrence in the
\* same batch counts as present), then stops with an error that matches
\* ErrHashAlreadyExists and names that key's bucket index; the keys before it
\* stay inserted, nothing at or after it is inserted, and the batch <<h, h>>
\* on an empty map leaves Length() = 1.  Without such a key it inserts all.
C5_PutMultiStopsAtFirstDuplicate ==
    \A hashes \in Batches, v \in Values :
        LET r == NativeSplitMap_PutMulti(g, hashes, v)
            d == FirstRepeat(hashes, Routed(g))
            n == IF d = 0 THEN Len(hashes) ELSE d - 1
            inserted == {hashes[j] : j \in 1 .. n}
        IN /\ d = 0 => r.err = Nil
           /\ d # 0 =>
                  /\ ErrorsIs(r.err, ErrHashAlreadyExists)
                  /\ r.err[1].bucket = Bytes2Uint16Buckets(hashes[d], NativeSplitMap_Buckets(g))
           /\ \A h \in inserted : NativeSplitMap_Get(r.g, h) = <<v, TRUE>>
           /\ \A h \in Hashes \ inserted : NativeSplitMap_Get(r.g, h) = NativeSplitMap_Get(g, h)
           /\ \A i \in DOMAIN g.m :
                  DOMAIN r.g.m[i].m =
                      DOMAIN g.m[i].m
                      \cup {h \in inserted : i = Bytes2Uint16Buckets(h, NativeSplitMap_Buckets(g))}
           /\ NativeSplitMap_Length(r.g) = NativeSplitMap_Length(g) + n
           /\ (NativeSplitMap_Length(g) = 0 /\ Len(hashes) = 2 /\ hashes[1] = hashes[2]) =>
                  NativeSplitMap_Length(r.g) = 1

\* C5 witness: the split map holds one routed key, and a batch of a new key
\* followed by that key fails after inserting the new one.
C5_Witness ==
    /\ target = "NativeSplitMap"
    /\ \E hashes \in Batches :
          /\ Len(hashes) = 2
          /\ ~NativeSplitMap_Exists(g, hashes[1])
          /\ NativeSplitMap_Exists(g, hashes[2])
          /\ LET r == NativeSplitMap_PutMulti(g, hashes, 1)
             IN /\ ErrorsIs(r.err, ErrHashAlreadyExists)
                /\ NativeSplitMap_Length(r.g) = NativeSplitMap_Length(g) + 1

\* C6: PutMultiBucket(b, keys, v) returns an error matching
\* ErrBucketDoesNotExist exactly when b > Buckets(); it then inserts nothing
\* and leaves Length() unchanged; for b <= Buckets(), b = Buckets() included,
\* it does not return that error.
C6_BucketRangeCheck ==
    \A b \in BucketArgs \cup {65535}, hashes \in Batches, v \in Values :
        LET r == NativeSplitMap_PutMultiBucket(g, b, hashes, v)
        IN /\ ErrorsIs(r.err, ErrBucketDoesNotExist) <=> b > NativeSplitMap_Buckets(g)
           /\ b > NativeSplitMap_Buckets(g) =>
                  /\ r.g = g
                  /\ NativeSplitMap_Length(r.g) = NativeSplitMap_Length(g)

\* C6 witness: on a split map that holds an entry, bucket Buckets() + 1 is
\* refused and bucket Buckets() takes a key.
C6_Witness ==
    /\ target = "NativeSplitMap"
    /\ NativeSplitMap_Length(g) >= 1
    /\ \E h \in Hashes :
          /\ ErrorsIs(NativeSplitMap_PutMultiBucket(g, NativeSplitMap_Buckets(g) + 1, <<h>>, 1).err,
                      ErrBucketDoesNotExist)
          /\ NativeSplitMap_PutMultiBucket(g, NativeSplitMap_Buckets(g), <<h>>, 1).err = Nil

\* C7: for every bucket index b <= Buckets() and every list of hashes, a
\* PutMultiBucket(b, hashes, n) that returns nil makes Get(h) = (n, true) and
\* Exists(h) true for every h of the list.
C7_PutMultiBucketThenGet ==
    [][ \A b \in 0 .. NativeSplitMap_Buckets(g), hashes \in Batches, n \in Values :
          ( /\ SplitPutMultiBucket(b, hashes, n)
            /\ NativeSplitMap_PutMultiBucket(g, b, hashes, n).err = Nil ) =>
              \A j \in 1 .. Len(hashes) :
                  /\ NativeSplitMap_Get(g', hashes[j]) = <<n, TRUE>>
                  /\ NativeSplitMap_Exists(g', hashes[j])
      ]_vars

\* C8: a PutMultiBucket(b, keys, v) whose batch reaches a key already stored
\* in shard b returns an error matching ErrHashAlreadyExists, leaves that
\* key's stored value as it was, keeps the keys of the batch before it (no
\* rollback) and inserts none of the keys after it.
C8_PutMultiBucketNoRollback ==
    \A b \in 0 .. NativeSplitMap_Buckets(g), hashes \in Batches, v \in Values :
        LET shard == g.m[b]
            r == NativeSplitMap_PutMultiBucket(g, b, hashes, v)
            d == FirstRepeat(hashes, DOMAIN shard.m)
            before == {hashes[j] : j \in 1 .. (d - 1)}
        IN d # 0 =>
               /\ ErrorsIs(r.err, ErrHashAlreadyExists)
               /\ \A h \in DOMAIN shard.m : r.g.m[b].m[h] = shard.m[h]
               /\ \A h \in before : h \in DOMAIN r.g.m[b].m /\ r.g.m[b].m[h] = v
               /\ DOMAIN r.g.m[b].m = DOMAIN shard.m \cup before
               /\ \A i \in DOMAIN g.m : i # b => r.g.m[i] = g.m[i]

\* C8 witness: shard b holds a key with value 1, and a batch of a new key
\* followed by that key, put with value 2, fails after inserting the new one.
C8_Witness ==
    /\ target = "NativeSplitMap"
    /\ \E b \in DOMAIN g.m, hashes \in Batches :
          /\ Len(hashes) = 2
          /\ hashes[1] \notin DOMAIN g.m[b].m
          /\ hashes[2] \in DOMAIN g.m[b].m
          /\ g.m[b].m[hashes[2]] = 1
          /\ LET r == NativeSplitMap_PutMultiBucket(g, b, hashes, 2)
             IN /\ ErrorsIs(r.err, ErrHashAlreadyExists)
                /\ hashes[1] \in DOMAIN r.g.m[b].m

\* C9: Delete(h) on a split map checks the shard before the key: when the
\* slot h routes to is missing from the shard table it returns an error that
\* matches ErrBucketDoesNotExist and not ErrHashDoesNotExist; when the slot
\* exists and h is absent it returns one matching ErrHashDoesNotExist.
C9_DeleteChecksShardFirst ==
    \A h \in Hashes :
        LET bucket == Bytes2Uint16Buckets(h, NativeSplitMap_Buckets(g))
            r == NativeSplitMap_Delete(g, h)
        IN /\ bucket \notin DOMAIN g.m =>
                  /\ ErrorsIs(r.err, ErrBucketDoesNotExist)
                  /\ ~ErrorsIs(r.err, ErrHashDoesNotExist)
                  /\ r.g = g
           /\ (bucket \in DOMAIN g.m /\ h \notin DOMAIN g.m[bucket].m) =>
                  /\ ErrorsIs(r.err, ErrHashDoesNotExist)
                  /\ ~ErrorsIs(r.err, ErrBucketDoesNotExist)

\* C9 witness: a shard was removed while the other shards hold entries, and
\* Delete of a hash routed to the removed shard reports the missing bucket.
C9_Witness ==
    /\ ~AllShards(g)
    /\ StoredAll(g) >= 1
    /\ \E h \in Hashes :
          /\ Bytes2Uint16Buckets(h, NativeSplitMap_Buckets(g)) \notin DOMAIN g.m
          /\ ErrorsIs(NativeSplitMap_Delete(g, h).err, ErrBucketDoesNotExist)

\* C10: in every state reached by sequential calls, successful or failing,
\* Length() equals len(Keys()), on the NativeMapUint64 and on the
\* NativeSplitMap.
C10_LengthIsLenKeys ==
    /\ \A keys \in NativeSplitMap_Keys(g) : Len(keys) = NativeSplitMap_Length(g)
    /\ \A keys \in NativeMapUint64_Keys(s) : Len(keys) = NativeMapUint64_Length(s)

\* C10 witness: the split map holds two entries in one shard, so Keys has
\* more than one order to return.
C10_Witness ==
    /\ target = "NativeSplitMap"
    /\ \E i \in DOMAIN g.m : Stored(g.m[i]) = 2
    /\ Cardinality(NativeSplitMap_Keys(g)) = 2

\* C11: on the hash-set map, after any sequence of Put, PutMulti and Delete
\* calls, a Put of a stored hash and a Delete of an absent hash included,
\* Length() equals the number of hashes stored, which is len(Keys()).
C11_HashSetLengthIsLenKeys ==
    /\ NativeMap_Length(nm) = Cardinality(nm.m)
    /\ NativeMap_Keys(nm) # {}
    /\ \A keys \in NativeMap_Keys(nm) : Len(keys) = NativeMap_Length(nm)

\* C12: for every hash h and modulus mod in 1..65535 the routing function
\* returns (h[0] * 256 + h[1]) mod mod, a value below mod that no byte of h
\* after the first two has a part in.
C12_RouteIsBigEndianMod ==
    rout # NoBucket =>
        /\ rout = (rin.hash[1] * 256 + rin.hash[2]) % rin.mod
        /\ rout < rin.mod
        /\ \A h \in RouteHashes :
               (h[1] = rin.hash[1] /\ h[2] = rin.hash[2]) =>
                   Bytes2Uint16Buckets(h, rin.mod) = rout

\* C12 witness: the fuzz seed 0xff 0xff with modulus 1024, with a third byte
\* set, was routed to 1023.
C12_Witness ==
    /\ rin.hash = <<255, 255, 255>>
    /\ rin.mod = 1024
    /\ rout = 1023

\* capacity hints handed to the constructor
Hints == {0, 10}

CallsIn(calls, i) ==
    LET at == {j \in 1 .. Len(calls) : calls[j].bucket = i}
        pos(n) == CHOOSE j \in at : Cardinality({k \in at : k < j}) = n - 1
    IN [n \in 1 .. Cardinality(at) |-> [hash |-> calls[pos(n)].hash, value |-> calls[pos(n)].value]]

C15_IterStopsOnTrue ==
    target = "NativeSplitMap" =>
        \A stopOn \in SUBSET Hashes : \A calls \in NativeSplitMap_Iter(g, stopOn) :
            \A j \in 1 .. Len(calls) : calls[j].hash \in stopOn => j = Len(calls)

C17_CheckAndAct ==
    \A k \in Hashes, v \in Values :
        /\ LET e == NativeSplitMap_SetIfExists(g, k, v)
               n == NativeSplitMap_SetIfNotExists(g, k, v)
           IN /\ e.err = Nil /\ n.err = Nil
              /\ IF NativeSplitMap_Exists(g, k)
                 THEN /\ e.ok
                      /\ NativeSplitMap_Get(e.g, k) = <<v, TRUE>>
                      /\ NativeSplitMap_Length(e.g) = NativeSplitMap_Length(g)
                      /\ ~n.ok
                      /\ n.g = g
                 ELSE /\ ~e.ok
                      /\ e.g = g
                      /\ n.ok
                      /\ NativeSplitMap_Get(n.g, k) = <<v, TRUE>>
                      /\ NativeSplitMap_Length(n.g) = NativeSplitMap_Length(g) + 1
        /\ LET e == NativeMapUint64_SetIfExists(s, k, v)
               n == NativeMapUint64_SetIfNotExists(s, k, v)
           IN /\ e.err = Nil /\ n.err = Nil
              /\ IF NativeMapUint64_Exists(s, k)
                 THEN /\ e.ok
                      /\ NativeMapUint64_Get(e.s, k) = <<v, TRUE>>
                      /\ NativeMapUint64_Length(e.s) = NativeMapUint64_Length(s)
                      /\ ~n.ok
                      /\ n.s = s
                 ELSE /\ ~e.ok
                      /\ e.s = s
                      /\ n.ok
                      /\ NativeMapUint64_Get(n.s, k) = <<v, TRUE>>
                      /\ NativeMapUint64_Length(n.s) = NativeMapUint64_Length(s) + 1

\* C17 witness: the split map holds k with value 1 and not k2, so that
\* SetIfExists(k, 2) and SetIfNotExists(k2, 2) both apply.
C17_Witness ==
    /\ target = "NativeSplitMap"
    /\ \E k \in Hashes, k2 \in Hashes :
          /\ NativeSplitMap_Get(g, k) = <<1, TRUE>>
          /\ NativeSplitMap_SetIfExists(g, k, 2).ok
          /\ ~NativeSplitMap_Exists(g, k2)
          /\ NativeSplitMap_SetIfNotExists(g, k2, 2).ok

\* C19: Set(k, v) on an absent k returns an error matching
\* ErrHashDoesNotExist, does not insert k and leaves Length() unchanged; on a
\* present k it returns nil, replaces the value of k and leaves Length() and
\* every other entry unchanged.
C19_SetUpdatesOnly ==
    \A k \in Hashes, v \in Values :
        /\ LET r == NativeSplitMap_Set(g, k, v)
               idx == Bytes2Uint16Buckets(k, NativeSplitMap_Buckets(g))
           IN IF ~NativeSplitMap_Exists(g, k)
              THEN /\ ErrorsIs(r.err, ErrHashDoesNotExist)
                   /\ ~NativeSplitMap_Exists(r.g, k)
                   /\ NativeSplitMap_Length(r.g) = NativeSplitMap_Length(g)
                   /\ r.g = g
              ELSE /\ r.err = Nil
                   /\ NativeSplitMap_Get(r.g, k) = <<v, TRUE>>
                   /\ NativeSplitMap_Length(r.g) = NativeSplitMap_Length(g)
                   /\ \A i \in DOMAIN g.m :
                          /\ DOMAIN r.g.m[i].m = DOMAIN g.m[i].m
                          /\ \A h \in DOMAIN g.m[i].m :
                                 (i # idx \/ h # k) => r.g.m[i].m[h] = g.m[i].m[h]
        /\ LET r == NativeMapUint64_Set(s, k, v)
           IN IF ~NativeMapUint64_Exists(s, k)
              THEN /\ ErrorsIs(r.err, ErrHashDoesNotExist)
                   /\ r.s = s
              ELSE /\ r.err = Nil
                   /\ NativeMapUint64_Get(r.s, k) = <<v, TRUE>>
                   /\ NativeMapUint64_Length(r.s) = NativeMapUint64_Length(s)
                   /\ DOMAIN r.s.m = DOMAIN s.m
                   /\ \A h \in DOMAIN s.m : h # k => r.s.m[h] = s.m[h]

\* C19 witness: the split map holds k with value 1 next to another entry and
\* lacks k2: Set(k, 2) returns nil and Set(k2, 2) is refused.
C19_Witness ==
    /\ target = "NativeSplitMap"
    /\ NativeSplitMap_Length(g) = 2
    /\ \E k \in Hashes, k2 \in Hashes :
          /\ NativeSplitMap_Get(g, k) = <<1, TRUE>>
          /\ NativeSplitMap_Set(g, k, 2).err = Nil
          /\ ErrorsIs(NativeSplitMap_Set(g, k2, 2).err, ErrHashDoesNotExist)

\* C18: when two goroutines call SetIfNotExists(k, v1) and
\* SetIfNotExists(k, v2) on the same absent key, then in every interleaving
\* exactly one call returns true, the stored value is that call's value and
\* Length() has risen by exactly 1.
C18_SetIfNotExistsAtomic ==
    \A k \in Hashes :
        ( /\ \A t \in Threads :
                 th[t].pc = "done" /\ th[t].op = "SetIfNotExists" /\ th[t].hash = k
          /\ ~NativeMapUint64_Exists(s0, k) ) =>
            /\ Cardinality({t \in Threads : th[t].ok}) = 1
            /\ \A t \in Threads : th[t].ok => NativeMapUint64_Get(s, k) = <<ValueOf(t), TRUE>>
            /\ NativeMapUint64_Length(s) = NativeMapUint64_Length(s0) + 1

\* C18 witness: the table held one other key, both goroutines called
\* SetIfNotExists on the same absent key and the second goroutine's call is
\* the one that returned true.
C18_Witness ==
    /\ NativeMapUint64_Length(s0) = 1
    /\ \A t \in Threads : th[t].pc = "done" /\ th[t].op = "SetIfNotExists"
    /\ th[1].hash = th[2].hash
    /\ ~NativeMapUint64_Exists(s0, th[1].hash)
    /\ ~th[1].ok
    /\ th[2].ok

\* C20: no mutating method (Put, PutMulti, Set, SetIfExists, SetIfNotExists,
\* Delete) is inside a table's critical section together with any other
\* method on that table; only Get, Exists, Keys, Length and Iter overlap.
C20_ReaderWriterDiscipline ==
    \A t1 \in Threads, t2 \in Threads :
        (t1 # t2 /\ th[t1].pc = "locked" /\ th[t2].pc = "locked") =>
            /\ th[t1].op \in {"Get", "Exists", "Keys", "Length", "Iter"}
            /\ th[t2].op \in {"Get", "Exists", "Keys", "Length", "Iter"}

\* C20 witness: two readers are inside the critical section of a table that
\* holds an entry, and a writer is kept out.
C20_Witness ==
    /\ th[1].pc = "locked" /\ th[1].op = "Get"
    /\ th[2].pc = "locked" /\ th[2].op = "Iter"
    /\ mu.readers = 2
    /\ NativeMapUint64_Length(s) >= 1
    /\ ~CanTake(mu, Locking("Put"))

\* C21: no goroutine holds the locks of two shard tables at once, and a
\* goroutine about to call a method of the table j takes its lock at once
\* unless another goroutine is inside a method of that same table j:
\* whatever is locked on the other tables never holds it back.
C21_ShardsNeverContend ==
    /\ \A t \in Threads : Cardinality(gth[t].held) <= 1
    /\ \A t \in Threads :
           (/\ gth[t].pc = "ready"
            /\ \A u \in Threads \ {t} : gth[u].pc = "locked" => gth[u].at # gth[t].at)
               => ENABLED ShardEnter(t)

\* C21 witness: the first goroutine is inside Length's call on the last
\* table while the second is inside Put on another table, holding that
\* table's exclusive lock.
C21_Witness ==
    /\ gth[1].pc = "locked" /\ gth[1].op = "Length" /\ gth[1].at = g.nrOfBuckets
    /\ gth[2].pc = "locked" /\ gth[2].op = "Put" /\ gth[2].at # gth[1].at
    /\ smu[gth[2].at].writer
    /\ smu[gth[1].at].readers = 1

\* C22: Length of a split map never reads the count of a shard table while
\* another goroutine is inside a mutating method of that table, holding its
\* exclusive lock; while Length is inside a table it holds that table's
\* shared lock.
C22_LengthReadsUnderLock ==
    \A t \in Threads :
        gth[t].op = "Length" =>
            /\ ~gth[t].raced
            /\ gth[t].pc = "locked" =>
                   /\ smu[ShardLock(gth[t].at)].readers >= 1
                   /\ ~smu[ShardLock(gth[t].at)].writer

RECURSIVE SumSeq(_)
SumSeq(q) == IF q = <<>> THEN 0 ELSE Head(q) + SumSeq(Tail(q))

\* C23: what Length of a NativeSplitMap returns is the sum, over every shard
\* table 0 .. Buckets() read once each, of the number of keys that table
\* held at the instant it was read; the total need not be a number of
\* entries the map ever held while the call ran (see the witness).
C23_LengthIsSumOfShardReads ==
    \A t \in Threads :
        (/\ target = "NativeSplitMap goroutines"
         /\ gth[t].op = "Length"
         /\ gth[t].pc = "done")
            => /\ Len(gth[t].reads) = g.nrOfBuckets + 1
               /\ gth[t].acc = SumSeq(gth[t].reads)

\* C23 witness: Length returned 0 although the map held one entry when the
\* call began and one or two at every instant until it returned: a key was
\* put into a table Length had read and another deleted from a table it
\* had not yet read.
C23_Witness ==
    /\ target = "NativeSplitMap goroutines"
    /\ gth[1].op = "Length"
    /\ gth[1].pc = "done"
    /\ gth[1].acc = 0
    /\ gth[1].totals = {1, 2}
    /\ gth[1].acc \notin gth[1].totals

\* the keys of its batch a running PutMulti or PutMultiBucket has inserted
InsertedOf(rec) == IF rec.op = "PutMulti" THEN rec.k - 1 ELSE rec.k

\* C24 as claimed: neither PutMulti nor PutMultiBucket keeps a shard lock
\* from one insertion of a batch to the next; whenever an earlier key of
\* the batch is in and a later one is still to come, the goroutine is not
\* in the middle of a lock hold that covered the earlier insertion.
C24_BatchKeysLockedOneByOne ==
    \A t \in Threads :
        (/\ gth[t].op \in {"PutMulti", "PutMultiBucket"}
         /\ gth[t].pc = "locked"
         /\ InsertedOf(gth[t]) > 0
         /\ InsertedOf(gth[t]) < Len(gth[t].hashes))
            => gth[t].method = "Put"

\* C24 amended: PutMulti reaches the tables through single-key Put calls
\* and holds no lock between two of them; PutMultiBucket inserts its whole
\* batch under one hold of the named table's exclusive lock, so while an
\* earlier key is in and a later one still to come no other goroutine is
\* inside that table.
C24_PutMultiOneByOneBucketUnderOneLock ==
    \A t \in Threads :
        /\ (gth[t].op = "PutMulti" /\ gth[t].pc = "locked")
               => /\ gth[t].method = "Put"
                  /\ gth[t].held = {ShardLock(Bytes2Uint16Buckets(gth[t].hash, g.nrOfBuckets))}
        /\ (gth[t].op = "PutMulti" /\ gth[t].pc = "ready") => gth[t].held = {}
        /\ (gth[t].op = "PutMultiBucket" /\ gth[t].pc = "locked")
               => /\ smu[ShardLock(gth[t].at)].writer
                  /\ smu[ShardLock(gth[t].at)].readers = 0
                  /\ \A u \in Threads \ {t} : gth[u].pc = "locked" => gth[u].at # gth[t].at

\* C24 witness: with both keys routed to table 0, PutMulti has put the first
\* key of its batch and not yet the second, and the other goroutine, inside
\* Exists on table 0, found the second key absent.
C24_Witness ==
    /\ g.nrOfBuckets = 1
    /\ gth[1].op = "PutMulti" /\ gth[1].pc = "ready" /\ gth[1].k = 2
    /\ gth[1].hashes[1] \in DOMAIN g.m[0].m
    /\ gth[1].hashes[2] \notin DOMAIN g.m[0].m
    /\ gth[2].op = "Exists" /\ gth[2].pc = "locked" /\ gth[2].at = 0
    /\ gth[2].hash = gth[1].hashes[2]
    /\ ~gth[2].seen

\* the Put calls of the goroutines T that have returned nil
RECURSIVE NilPuts(_)
NilPuts(T) ==
    IF T = {} THEN 0
    ELSE LET t == CHOOSE u \in T : TRUE IN lth[t].nils + NilPuts(T \ {t})

\* the keys held by the tables of the lock-free map
FreeStored(f) == UNION {{<<i, k>> : k \in DOMAIN f.m[i].m} : i \in DOMAIN f.m}

\* C25: whatever the interleaving of the goroutines' Put calls, once every
\* call has returned Length() is the number of Put calls that returned nil:
\* the counter rises by one, atomically, in each such Put and nowhere else.
C25_LengthCountsNilPuts ==
    (target \in Rules /\ \A t \in Threads : lth[t].pc = "idle")
        => NativeSplitLockFreeMapUint64_Length(lf) = NilPuts(Threads)

\* two Put calls have run at once in one table and both returned nil, with
\* one entry stored
C25_Witness ==
    /\ target = "lock-free goroutines"
    /\ \A t \in Threads : lth[t].pc = "idle" /\ lth[t].op = "Put" /\ lth[t].nils = 1
    /\ NativeSplitLockFreeMapUint64_Length(lf) = 2
    /\ Cardinality(FreeStored(lf)) = 1

\* two goroutines are inside the Go map of one table, one of them in Put
SharedTable ==
    \E t \in Threads, u \in Threads :
        /\ t # u
        /\ InsideTable(t, lth[t].at)
        /\ InsideTable(u, lth[t].at)
        /\ lth[t].op = "Put"

\* C26: when concurrent writers never work on the same key and nobody
\* writes a key that another goroutine reads, no two goroutines are ever
\* inside the same shard's table at once with one of them in Put.
C26_DistinctKeysNeverShareTable ==
    target = "lock-free goroutines on distinct keys" => ~SharedTable

\* C26, amended: when concurrent writers never work on keys of the same
\* shard (hash mod bucket count) and nobody writes into a shard that another
\* goroutine reads, no two goroutines are ever inside the same shard's table
\* at once with one of them in Put.
C26_DistinctShardsNeverShareTable ==
    target = "lock-free goroutines on distinct shards" => ~SharedTable

\* two Put calls on keys of different shards are inside their tables at once
C26_Witness ==
    /\ target = "lock-free goroutines on distinct shards"
    /\ \A t \in Threads : lth[t].op = "Put" /\ lth[t].pc = "store"
    /\ lth[1].at # lth[2].at

\* the Get that goroutine t last returned from gave what the key's table holds
GetRight(t) ==
    (lth[t].pc = "idle" /\ lth[t].op = "Get")
        => LET held == lf.m[lth[t].hash % lf.nrOfBuckets].m
           IN IF lth[t].hash \in DOMAIN held
              THEN lth[t].val = held[lth[t].hash] /\ lth[t].ok
              ELSE lth[t].val = 0 /\ ~lth[t].ok

\* C27: when every Put has returned before the first read is called, the
\* Get, Exists and Length calls of the goroutines, however interleaved, leave
\* every table and every counter as they were, and each Get(k) returns the
\* value put for k with true, or 0 with false for a key never put.
C27_ReadsAfterWritesAreSafe ==
    [][ target = "lock-free reads after writes"
            => /\ (\E t \in Threads : lth[t].read) => lf' = lf
               /\ \A t \in Threads : GetRight(t)' ]_vars

\* a Get has found its key while the other goroutine is inside a read of the
\* same table
C27_Witness ==
    /\ target = "lock-free reads after writes"
    /\ lth[1].pc = "idle" /\ lth[1].op = "Get" /\ lth[1].ok
    /\ lth[2].pc = "lookup" /\ lth[2].at = lth[1].hash % lf.nrOfBuckets

\* the key is in no table of the lock-free map: it was never put
NeverPut(f, k) == \A i \in DOMAIN f.m : k \notin DOMAIN f.m[i].m

\* C28: used by one caller, the lock-free map keeps key k in the table
\* k mod bucket count and only gains entries: Put(k, v) of a key not yet put
\* returns nil, after which Exists(k) holds, Get(k) is (v, true) and Length()
\* is one more; Put of a key already put returns ErrHashAlreadyExists and
\* leaves its value and Length() alone; Get of a key never put is (0, false).
C28_SequentialInsertOnly ==
    target = "NativeSplitLockFreeMapUint64"
        => /\ \A i \in DOMAIN lf.m : \A k \in DOMAIN lf.m[i].m : i = k % lf.nrOfBuckets
           /\ \A k \in NumericKeys, v \in Values :
                  LET r == NativeSplitLockFreeMapUint64_Put(lf, k, v)
                  IN IF NeverPut(lf, k)
                     THEN /\ NativeSplitLockFreeMapUint64_Get(lf, k) = <<0, FALSE>>
                          /\ ~NativeSplitLockFreeMapUint64_Exists(lf, k)
                          /\ r.err = Nil
                          /\ k \in DOMAIN r.f.m[k % lf.nrOfBuckets].m
                          /\ NativeSplitLockFreeMapUint64_Exists(r.f, k)
                          /\ NativeSplitLockFreeMapUint64_Get(r.f, k) = <<v, TRUE>>
                          /\ NativeSplitLockFreeMapUint64_Length(r.f)
                                 = NativeSplitLockFreeMapUint64_Length(lf) + 1
                     ELSE /\ r.err = ErrHashAlreadyExists
                          /\ NativeSplitLockFreeMapUint64_Get(r.f, k)
                                 = NativeSplitLockFreeMapUint64_Get(lf, k)
                          /\ NativeSplitLockFreeMapUint64_Length(r.f)
                                 = NativeSplitLockFreeMapUint64_Length(lf)
                          /\ r.f = lf

\* two tables hold a key each, so Put meets present and absent keys
C28_Witness ==
    /\ target = "NativeSplitLockFreeMapUint64"
    /\ lf.nrOfBuckets = NrBuckets
    /\ 1 \in DOMAIN lf.m[1].m
    /\ NrBuckets \in DOMAIN lf.m[0].m
    /\ \E k \in NumericKeys : NeverPut(lf, k)

\* C29: a SyncedMap made with a limit above 0 never holds more entries than
\* the limit: once Set and SetMulti have been handed more distinct keys than
\* the limit, one of those keys is absent.  Set and SetMulti return nothing,
\* so no call reports an error.
C29_LimitIsNeverExceeded ==
    (target = "SyncedMap" /\ syncedMap.limit > 0)
        => /\ SyncedMap_Length(syncedMap) <= syncedMap.limit
           /\ DOMAIN syncedMap.m \subseteq offered
           /\ Cardinality(offered) > syncedMap.limit
                  => \E key \in offered : ~SyncedMap_Exists(syncedMap, key)

\* a full map has been handed one key more than its limit
C29_Witness ==
    /\ target = "SyncedMap"
    /\ syncedMap.limit = MaxLen
    /\ SyncedMap_Length(syncedMap) = MaxLen
    /\ Cardinality(offered) = MaxLen + 1

\* C30: Shift takes the items of a SyncedSlice in the order of their Append,
\* Pop takes the item appended last; a Shift or Pop that takes an item lowers
\* Length() by one, and on an empty slice both return false and leave the
\* slice as it is.
C30_ShiftFirstPopLast ==
    target = "SyncedSlice"
        => LET c == syncedSlice
               n == SyncedSlice_Length(c)
               pop == SyncedSlice_Pop(c)
               shift == SyncedSlice_Shift(c)
           IN /\ n = 0 => /\ ~pop.ok /\ pop.c = c
                          /\ ~shift.ok /\ shift.c = c
              /\ n > 0 => /\ shift.ok /\ shift.item = c.items[1]
                          /\ shift.c.items = SubSeq(c.items, 2, n)
                          /\ SyncedSlice_Length(shift.c) = n - 1
                          /\ pop.ok /\ pop.item = c.items[n]
                          /\ pop.c.items = SubSeq(c.items, 1, n - 1)
                          /\ SyncedSlice_Length(pop.c) = n - 1
              /\ \A item \in SyncedKeys :
                     LET after == SyncedSlice_Append(c, item)
                     IN /\ after.items = c.items \o <<item>>
                        /\ SyncedSlice_Pop(after).ok
                        /\ SyncedSlice_Pop(after).item = item
                        /\ SyncedSlice_Pop(after).c = c
                        /\ SyncedSlice_Shift(after).ok
                        /\ SyncedSlice_Shift(after).item = (IF n = 0 THEN item ELSE c.items[1])

\* a Pop has taken the last of several different items and left the first
C30_Witness ==
    /\ target = "SyncedSlice"
    /\ taken.op = "Pop" /\ taken.ok
    /\ SyncedSlice_Length(syncedSlice) >= 1
    /\ taken.item # syncedSlice.items[1]

\* what the Put of goroutine t on the table s returned: the error its
\* existence test decided
PutReturned(t) == Body(s, th[t], ValueOf(t)).err

\* C31: two goroutines put the same key, absent before, with different
\* values, into one NativeMapUint64 or into a NativeSplitMap: whatever the
\* interleaving, one Put returns nil and the other an error that is
\* ErrHashAlreadyExists, the key holds the value of the Put that returned
\* nil, and Length() is one more than before.
C31_OnePutWins ==
    /\ (/\ target = "goroutines"
        /\ \A t \in Threads : th[t].pc = "done" /\ th[t].op = "Put"
        /\ th[1].hash = th[2].hash
        /\ th[1].hash \notin DOMAIN s0.m)
           => \E w \in Threads :
                  /\ PutReturned(w) = Nil
                  /\ \A u \in Threads \ {w} : ErrorsIs(PutReturned(u), ErrHashAlreadyExists)
                  /\ NativeMapUint64_Get(s, th[w].hash) = <<ValueOf(w), TRUE>>
                  /\ NativeMapUint64_Length(s) = NativeMapUint64_Length(s0) + 1
    /\ (/\ target = "NativeSplitMap goroutines"
        /\ \A t \in Threads : gth[t].pc = "done" /\ gth[t].op = "Put"
        /\ gth[1].hash = gth[2].hash
        /\ gth[1].hash \notin DOMAIN s0.m)
           => \E w \in Threads :
                  /\ gth[w].err = Nil
                  /\ \A u \in Threads \ {w} : ErrorsIs(gth[u].err, ErrHashAlreadyExists)
                  /\ NativeSplitMap_Get(g, gth[w].hash) = <<ValueOf(w), TRUE>>
                  /\ NativeSplitMap_Length(g) = NativeMapUint64_Length(s0) + 1

\* the second goroutine's Put won and the first one's was turned away, in a
\* table that held another key
C31_Witness ==
    /\ target = "goroutines"
    /\ \A t \in Threads : th[t].pc = "done" /\ th[t].op = "Put"
    /\ th[1].hash = th[2].hash
    /\ th[1].hash \notin DOMAIN s0.m
    /\ Stored(s0) = 1
    /\ PutReturned(2) = Nil
    /\ ErrorsIs(PutReturned(1), ErrHashAlreadyExists)

\* C32: two goroutines delete the same stored key from a split map, whose
\* Delete tests Exists under the shared lock and then deletes under the
\* exclusive lock: whatever the interleaving, one Delete returns nil and the
\* other an error that is ErrHashDoesNotExist, Length() is one less than
\* before, and Length() is at no time below the number of stored keys.
C32_OneDeleteWins ==
    target = "NativeSplitMap goroutines"
        => /\ NativeSplitMap_Length(g) >= StoredAll(g)
           /\ (/\ \A t \in Threads : gth[t].pc = "done" /\ gth[t].op = "Delete"
               /\ gth[1].hash = gth[2].hash
               /\ gth[1].hash \in DOMAIN s0.m)
                  => /\ \E w \in Threads :
                            /\ gth[w].err = Nil
                            /\ \A u \in Threads \ {w} : ErrorsIs(gth[u].err, ErrHashDoesNotExist)
                     /\ ~NativeSplitMap_Exists(g, gth[1].hash)
                     /\ NativeSplitMap_Length(g) = NativeMapUint64_Length(s0) - 1
                     /\ StoredAll(g) = Stored(s0) - 1

\* both goroutines saw the key in their Exists test, and the one that came
\* second to the exclusive lock was turned away by the table's own test
C32_Witness ==
    /\ target = "NativeSplitMap goroutines"
    /\ \A t \in Threads : gth[t].pc = "done" /\ gth[t].op = "Delete"
    /\ gth[1].hash = gth[2].hash
    /\ gth[1].hash \in DOMAIN s0.m
    /\ Stored(s0) = MaxLen
    /\ \E u \in Threads : gth[u].err # Nil /\ gth[u].err[1].bucket = NoBucket

\* C33: for every bucket count from 1 to 65535 the constructors with a
\* 16-bit shard index return, and the shard table then holds the shards
\* 0 .. n, which are n + 1.
C33_ConstructorsReturn ==
    <>(build.pc = "returned" /\ build.shards = build.nrOfBuckets + 1)

\* the shard at index Buckets(), which no hash is routed to
ExtraShard(sm) == sm.m[NativeSplitMap_Buckets(sm)]

\* C34: no routed operation reaches the shard at index Buckets(): Put,
\* PutMulti, Set, SetIfExists, SetIfNotExists and Delete leave it as it is,
\* so that after any sequence of them it is empty; a key stored in it, which
\* only PutMultiBucket(Buckets(), ...) can do, is counted by Length() and
\* returned by Keys() and is not found by Exists, Get or Delete.
C34_ExtraShardUnreached ==
    target = "NativeSplitMap"
        => /\ \A h \in Hashes : Bytes2Uint16Buckets(h, NativeSplitMap_Buckets(g)) < NativeSplitMap_Buckets(g)
           /\ \A h \in Hashes, v \in Values :
                  /\ ExtraShard(NativeSplitMap_Put(g, h, v).g) = ExtraShard(g)
                  /\ ExtraShard(NativeSplitMap_Set(g, h, v).g) = ExtraShard(g)
                  /\ ExtraShard(NativeSplitMap_SetIfExists(g, h, v).g) = ExtraShard(g)
                  /\ ExtraShard(NativeSplitMap_SetIfNotExists(g, h, v).g) = ExtraShard(g)
                  /\ ExtraShard(NativeSplitMap_Delete(g, h).g) = ExtraShard(g)
           /\ \A hs \in Batches, v \in Values :
                  ExtraShard(NativeSplitMap_PutMulti(g, hs, v).g) = ExtraShard(g)
           /\ \A h \in DOMAIN ExtraShard(g).m :
                  /\ NativeSplitMap_Length(g)
                         = 1 + NativeSplitMap_Length(
                                   [g EXCEPT !.m[NativeSplitMap_Buckets(g)] =
                                        NativeMapUint64_Delete(ExtraShard(g), h).s])
                  /\ \A keys \in NativeSplitMap_Keys(g) : \E i \in DOMAIN keys : keys[i] = h
                  /\ ~NativeSplitMap_Exists(g, h)
                  /\ NativeSplitMap_Get(g, h) = <<0, FALSE>>
                  /\ ErrorsIs(NativeSplitMap_Delete(g, h).err, ErrHashDoesNotExist)
                  /\ NativeSplitMap_Delete(g, h).g = g

\* C35: in a state reached by any sequence of public operations, with no
\* call running, the container Map() returns holds exactly the key-to-value
\* pairs stored in the split map, and its Length() is the split map's
\* Length().
C35_MapHoldsThePairs ==
    target = "NativeSplitMap"
        => LET flat == NativeSplitMap_Map(g).s
           IN /\ PairsOf(flat) = SplitPairs(g)
              /\ NativeMapUint64_Length(flat) = NativeSplitMap_Length(g)

\* C36: when Map() runs while other goroutines change the split map, every
\* key-to-value pair of the container it returns was stored in the split map,
\* with that value, at some instant between the start and the return of the
\* call.
C36_MapPairsWereStored ==
    (target = "NativeSplitMap goroutines" /\ gth[1].pc = "done" /\ gth[1].op = "Map")
        => PairsOf(gth[1].out) \subseteq gth[1].totals

\* two errors are the same up to wrapping: both nil, or both the same
\* sentinel under errors.Is
SameError(e1, e2) ==
    /\ e1 = Nil <=> e2 = Nil
    /\ \A sentinel \in {ErrHashAlreadyExists, ErrHashDoesNotExist, ErrBucketDoesNotExist} :
           ErrorsIs(e1, sentinel) <=> ErrorsIs(e2, sentinel)

\* two method results are the same up to the wrapping of the error
SameResult(rs, rg) == rs.ok = rg.ok /\ SameError(rs.err, rg.err)

\* the keys of a slice, as a set
KeySet(keys) == {keys[i] : i \in DOMAIN keys}

\* C37: through Put, PutMulti, Get, Exists, Set, SetIfExists,
\* SetIfNotExists, Delete, Length and Keys (as a set) a NativeSplitMap
\* cannot be told from one NativeMapUint64 by one caller: after the same
\* calls both hold the same key-to-value pairs and every call returns the
\* same on both, up to the wrapping of the error.
C37_SplitMapActsAsOneTable ==
    target = "NativeSplitMap beside NativeMapUint64"
        => /\ PairsOf(s) = SplitPairs(g)
           /\ NativeMapUint64_Length(s) = NativeSplitMap_Length(g)
           /\ {KeySet(keys) : keys \in NativeMapUint64_Keys(s)}
                  = {KeySet(keys) : keys \in NativeSplitMap_Keys(g)}
           /\ \A h \in Hashes :
                  /\ NativeMapUint64_Exists(s, h) = NativeSplitMap_Exists(g, h)
                  /\ NativeMapUint64_Get(s, h) = NativeSplitMap_Get(g, h)
                  /\ SameResult(NativeMapUint64_Delete(s, h), NativeSplitMap_Delete(g, h))
                  /\ \A v \in Values :
                         /\ SameResult(NativeMapUint64_Put(s, h, v), NativeSplitMap_Put(g, h, v))
                         /\ SameResult(NativeMapUint64_Set(s, h, v), NativeSplitMap_Set(g, h, v))
                         /\ SameResult(NativeMapUint64_SetIfExists(s, h, v),
                                       NativeSplitMap_SetIfExists(g, h, v))
                         /\ SameResult(NativeMapUint64_SetIfNotExists(s, h, v),
                                       NativeSplitMap_SetIfNotExists(g, h, v))
           /\ \A hs \in Batches, v \in Values :
                  SameResult(NativeMapUint64_PutMulti(s, hs, v), NativeSplitMap_PutMulti(g, hs, v))
           /\ SameResult(ret.one, ret.split)

\* both hold two keys that the split map keeps in two shards, the second
\* one left by a PutMulti that failed on both
C37_Witness ==
    /\ target = "NativeSplitMap beside NativeMapUint64"
    /\ Stored(s) = 2
    /\ \E i \in DOMAIN g.m, j \in DOMAIN g.m : i # j /\ Stored(g.m[i]) = 1 /\ Stored(g.m[j]) = 1
    /\ ret.op = "PutMulti"
    /\ ret.split.err # Nil

\* goroutine t is inside a method of the split map
InCall(t) == gth[t].pc \in {"ready", "locked"}

\* goroutine t can take its next step
CanStep(t) == ENABLED (ShardEnter(t) \/ ShardLeave(t, "idle", FALSE))

\* C38: with goroutines calling the public operations of a NativeSplitMap,
\* Iter visitors that make no call on the map included, no deadlock is
\* reachable - whenever goroutines are inside calls one of them can step -
\* and under a fair scheduler every call that was started returns.
C38_CallsReturn ==
    /\ []((\E t \in Threads : InCall(t)) => \E t \in Threads : InCall(t) /\ CanStep(t))
    /\ \A t \in Threads : InCall(t) ~> ~InCall(t)

\* a goroutine waits for the lock of a shard table that the other goroutine
\* holds inside Iter
C38_Witness ==
    \E t \in Threads, u \in Threads :
        /\ gth[t].pc = "ready"
        /\ ~CanStep(t)
        /\ gth[u].pc = "locked"
        /\ gth[u].op = "Iter"
        /\ gth[u].at = gth[t].at

\* the visitor's call of goroutine t has not come back and never held the
\* table's lock for writing, and the Iter that runs the visitor is still
\* inside the same table, holding its read lock
Hangs(t) ==
    /\ visit[t].call.pc # "done"
    /\ ~(visit[t].call.pc = "locked" /\ Locking(visit[t].call.method) = "Lock")
    /\ gth[t].pc = "locked"
    /\ gth[t].op = "Iter"
    /\ gth[t].at = visit[t].shard
    /\ smu[ShardLock(visit[t].shard)].readers >= 1

AsksForLock(t) ==
    \/ visit[t].on = "NativeMapUint64"
    \/ visit[t].call.op # "Delete"
    \/ visit[t].stored

====
